---------------------------- MODULE Spec2Model ----------------------------
(***************************************************************************)
(* THETA-GUARD weekly evaluation pipeline: holiday gate, EMA engine, entry *)
(* evaluator, BWB builder and the orchestrator that strings them together. *)
(*                                                                         *)
(* Python values are modelled as follows.  A dict is a record whose        *)
(* DOMAIN is the set of keys present (the empty dict is << >>).  Scalars   *)
(* held in a dict are strings: "True", "False", "None", "Truthy" (any      *)
(* other object that tests true), "Raises" (an object whose truth test     *)
(* raises, such as a multi-element array).  None and the other non-dict    *)
(* objects passed where a dict is expected are the records None, NonDict.  *)
(* Numbers are integers in a fixed unit (see the builder section).         *)
(***************************************************************************)
EXTENDS Integers, Sequences, FiniteSets, TLC

VARIABLES
    pc,               \* position of the running operation
    monday_date,      \* is_trade_week's argument
    calendar,         \* what the NYSE calendar collaborator does when asked
    holiday_result,   \* is_trade_week's result / evaluate_entry's first argument
    ema_state,        \* compute_ema_state's result / evaluate_entry's second argument
    entry_context,    \* evaluate_entry's third argument
    entry_decision,   \* evaluate_entry's result
    option_chain,     \* build_bwb_structure's first argument
    structure_type,   \* build_bwb_structure's second argument
    bwb_structure,    \* build_bwb_structure's result
    prices,           \* run_weekly_pipeline's prices argument
    entry_time_valid, \* run_weekly_pipeline's entry_time_valid argument
    spot_proxy,       \* result["spot_proxy"] of run_weekly_pipeline
    calls,            \* the stages run_weekly_pipeline has called, in order
    weekly_results,   \* evaluate_backtest's argument
    metrics,          \* evaluate_backtest's result
    periods,          \* compute_ema_state's short_period and long_period arguments
    run_result,       \* run_paper_pipeline's result dict
    journal,          \* the rows of the weekly journal file
    ema_period,       \* compute_ema_series's period argument
    ema_series,       \* compute_ema_series's result
    paper_calls       \* what run_paper_pipeline has called, in order

vars == <<pc, monday_date, calendar, holiday_result, ema_state, entry_context,
          entry_decision, option_chain, structure_type, bwb_structure,
          prices, entry_time_valid, spot_proxy, calls,
          weekly_results, metrics,
          periods,
          run_result, journal,
          ema_period, ema_series,
          paper_calls>>

--------------------------------------------------------------------------
(* Python objects *)

None == [none |-> TRUE]
NonDict == [nondict |-> TRUE]
EmptyDict == << >>

IsDict(d) == d # None /\ d # NonDict

\* dict.get(key, default)
DictGet(d, key, default) == IF key \in DOMAIN d THEN d[key] ELSE default

\* bool(v): TRUE for the objects that test true
Truth(v) == v \in {"True", "Truthy"}

\* bool(v) raises
TruthRaises(v) == v = "Raises"

\* a message: fixed text plus the value interpolated into it ("" when none)
Msg(text, arg) == [text |-> text, arg |-> arg]

\* the orchestrator's own state while a stage is exercised on its own
PipelineIdle ==
    /\ prices = None
    /\ entry_time_valid = "None"
    /\ spot_proxy = None
    /\ calls = << >>

BacktestIdle ==
    /\ weekly_results = None
    /\ metrics = None

EmaIdle ==
    /\ periods = None

PaperIdle ==
    /\ run_result = None
    /\ journal = << >>

SeriesIdle ==
    /\ ema_period = None
    /\ ema_series = None

PaperCallsIdle ==
    /\ paper_calls = << >>

--------------------------------------------------------------------------
(* calendar/holiday_gate.py *)

\* A date string "2024-MM-DD" is the record [m |-> MM, d |-> DD]; BadString is a
\* string of another format (ValueError), None is not a string (TypeError).
BadString == [text |-> "not-a-date"]

MaxMonth == 3
MaxDay == 32

DaysInMonth(m) ==
    CASE m = 2 -> 29
      [] m \in {4, 6, 9, 11} -> 30
      [] OTHER -> 31

RECURSIVE DaysBefore(_)
DaysBefore(m) == IF m <= 1 THEN 0 ELSE DaysInMonth(m - 1) + DaysBefore(m - 1)

\* datetime.strptime(s, "%Y-%m-%d").date(): the date as days since 2024-01-01,
\* or the exception it raises
strptime(s) ==
    IF s = None THEN [raised |-> TRUE, error |-> "TypeError", date |-> 0]
    ELSE IF s = BadString THEN [raised |-> TRUE, error |-> "ValueError", date |-> 0]
    ELSE IF s.m < 1 \/ s.m > 12 \/ s.d < 1 \/ s.d > DaysInMonth(s.m)
    THEN [raised |-> TRUE, error |-> "ValueError", date |-> 0]
    ELSE [raised |-> FALSE, error |-> "", date |-> DaysBefore(s.m) + s.d - 1]

\* date.weekday(): 0 is Monday; 2024-01-01 was a Monday
weekday(date) == date % 7

PyBool(b) == IF b THEN "True" ELSE "False"

HolidayResult(tw, mon, fri, reason) ==
    [is_trade_week |-> PyBool(tw), monday_trading_day |-> PyBool(mon),
     friday_trading_day |-> PyBool(fri), reason |-> reason]

HolidayFailure(reason) == HolidayResult(FALSE, FALSE, FALSE, reason)

\* nyse.schedule(start_date, end_date).index.date: the trading dates of the range.
\* cal.closed holds the offsets from start_date on which the market is closed.
ScheduleDates(cal, start, end) ==
    {start + o : o \in {k \in 0..(end - start) : k \notin cal.closed}}

\* lines 76-90
HolidayVerdict(s, friday, mon, fri) ==
    IF ~mon /\ ~fri
    THEN HolidayResult(FALSE, mon, fri,
            Msg("HARD BLOCK: Both Monday and Friday are market holidays.", <<s, friday>>))
    ELSE IF ~mon
    THEN HolidayResult(FALSE, mon, fri,
            Msg("HARD BLOCK: Monday is a market holiday.", <<s>>))
    ELSE IF ~fri
    THEN HolidayResult(FALSE, mon, fri,
            Msg("HARD BLOCK: Friday is a market holiday.", <<friday>>))
    ELSE HolidayResult(TRUE, mon, fri,
            Msg("Trade week allowed: Monday and Friday are both trading days.",
                <<s, friday>>))

\* a plausible slip: the end of the week taken one day late
FridayOf_saturday(monday) == monday + 5

\* line 50
FridayOf(monday) == monday + 4

\* a plausible slip: the weekday test dropped
IsMonday_unchecked(date) == TRUE

\* line 46
IsMonday(date) == weekday(date) = 0

is_trade_week(s, cal) ==
    LET parsed == strptime(s)
        monday == parsed.date
        friday == FridayOf(monday)
        trading_dates == ScheduleDates(cal, monday, friday)
    IN  IF parsed.raised
        THEN HolidayFailure(Msg("Invalid date format. Expected YYYY-MM-DD.", <<s>>))
        ELSE IF ~IsMonday(monday)
        THEN HolidayFailure(Msg("Date is not a Monday.", <<s>>))
        ELSE IF cal.mode = "load_raises"
        THEN HolidayFailure(Msg("Failed to load NYSE calendar. Defaulting to NO TRADE.", << >>))
        ELSE IF cal.mode = "schedule_raises"
        THEN HolidayFailure(Msg("Failed to retrieve market schedule. Defaulting to NO TRADE.", << >>))
        ELSE IF cal.mode = "schedule_none" \/ trading_dates = {}
        THEN HolidayFailure(Msg("No trading days found in the specified week.", << >>))
        ELSE HolidayVerdict(s, friday, monday \in trading_dates, friday \in trading_dates)

DateArgs ==
    {None, BadString} \cup {[m |-> m, d |-> d] : m \in 0..MaxMonth, d \in 0..MaxDay}

CalendarModes == {"load_raises", "schedule_raises", "schedule_none", "answers"}

Calendars ==
    {[mode |-> md, closed |-> c] : md \in CalendarModes, c \in SUBSET (0..4)}

InitHoliday ==
    /\ PipelineIdle
    /\ BacktestIdle
    /\ EmaIdle
    /\ PaperIdle
    /\ SeriesIdle
    /\ PaperCallsIdle
    /\ pc = "holiday_call"
    /\ monday_date \in DateArgs
    /\ calendar \in Calendars
    /\ holiday_result = None
    /\ ema_state = None
    /\ entry_context = None
    /\ entry_decision = None
    /\ option_chain = None
    /\ structure_type = "None"
    /\ bwb_structure = None

IsTradeWeek ==
    /\ pc = "holiday_call"
    /\ holiday_result' = is_trade_week(monday_date, calendar)
    /\ pc' = "holiday_done"
    /\ UNCHANGED <<monday_date, calendar, ema_state, entry_context, entry_decision,
                   option_chain, structure_type, bwb_structure,
                   prices, entry_time_valid, spot_proxy, calls,
                   weekly_results, metrics,
                   periods,
                   run_result, journal,
                   ema_period, ema_series,
                   paper_calls>>

NextHoliday == IsTradeWeek

SpecHoliday == InitHoliday /\ [][NextHoliday]_vars

--------------------------------------------------------------------------
(* indicators/ema_engine.py *)

\* A list object is [kind |-> "list", items |-> <<...>>, bad |-> S]: its elements
\* are the integers of items, except at the positions in bad, which hold an
\* object that is not a number.  Other objects: None, [kind |-> "int", value |-> n],
\* [kind |-> "str"], [kind |-> "array"] (truth test raises).
IsList(x) == x # None /\ x.kind = "list"
PyList(items) == [kind |-> "list", items |-> items, bad |-> {}]
PyInt(n) == [kind |-> "int", value |-> n]
PyNum(n) == [num |-> n]

\* Real numbers are exact fractions num / den with den > 0.
Frac(n, d) == [num |-> n, den |-> d]
RECURSIVE Gcd(_, _)
Gcd(a, b) == IF b = 0 THEN a ELSE Gcd(b, a % b)

\* a plausible slip: the comparison the other way round
FracGt_swapped(x, y) ==
    y.num * (x.den \div Gcd(x.den, y.den)) > x.num * (y.den \div Gcd(x.den, y.den))

\* x > y, both brought to the least common denominator
FracGt(x, y) ==
    x.num * (y.den \div Gcd(x.den, y.den)) > y.num * (x.den \div Gcd(x.den, y.den))

\* x - y as a numerator over x.den, for y.den a divisor of x.den
FracDiffNum(x, y) == x.num - (x.den \div y.den) * y.num

RECURSIVE SumTo(_, _)
SumTo(items, n) == IF n = 0 THEN 0 ELSE items[n] + SumTo(items, n - 1)

\* the common factor 2 of (period - 1), 2 and (period + 1) is cancelled when
\* period is odd, which leaves the value unchanged
StepDiv(period) == IF period % 2 = 1 THEN 2 ELSE 1

\* line 52: (price - ema_previous) * 2 / (period + 1) + ema_previous
EmaStep(price, prev, period) ==
    Frac(((period - 1) * prev.num + 2 * price * prev.den) \div StepDiv(period),
         ((period + 1) * prev.den) \div StepDiv(period))

\* a plausible slip: a progressively warming average over the first period
\* positions instead of the seed
RECURSIVE EmaAt_warming(_, _, _)
EmaAt_warming(items, period, i) ==
    IF i <= period
    THEN Frac(SumTo(items, i), i)
    ELSE EmaStep(items[i], EmaAt_warming(items, period, i - 1), period)

\* element i (1-based) of the series: the seed up to period, the recurrence after
RECURSIVE EmaAt(_, _, _)
EmaAt(items, period, i) ==
    IF i <= period
    THEN Frac(SumTo(items, period), period)
    ELSE EmaStep(items[i], EmaAt(items, period, i - 1), period)

\* compute_ema_series: None, or the list of EMA values
compute_ema_series(series, period) ==
    IF ~IsList(series) THEN None
    ELSE IF period < 1 THEN None
    ELSE IF Len(series.items) < period + 2 THEN None
    ELSE IF series.bad # {} THEN None
    ELSE [kind |-> "list",
          items |-> [i \in 1..Len(series.items) |-> EmaAt(series.items, period, i)]]

\* Prices are integers in a unit of 1e-10, so that SLOPE_EPSILON = 1e-9 is 10
\* units and a series can rise by less than SLOPE_EPSILON a step.
SLOPE_EPSILON == 10

\* a plausible slip: no flat band, a difference that is not negative counts as
\* positive
SlopeClass_no_band(cur, prev) ==
    IF FracDiffNum(cur, prev) >= 0 THEN "positive" ELSE "negative"

\* lines 143-149: slope_diff = diff_num / cur.den against +-SLOPE_EPSILON
SlopeClass(cur, prev) ==
    LET diff_num == FracDiffNum(cur, prev)
        bound == SLOPE_EPSILON * cur.den
    IN  IF diff_num > bound THEN "positive"
        ELSE IF -diff_num > bound THEN "negative"
        ELSE "zero"

\* a plausible slip: the order of the periods is not validated
PeriodsOrdered_unchecked(short_p, long_p) == TRUE

\* line 109
PeriodsOrdered(short_p, long_p) == short_p < long_p

EmaResult(se, le, sal, slope, n, valid, reason) ==
    [short_ema |-> se, long_ema |-> le, short_above_long |-> sal,
     long_ema_slope |-> slope, data_points_used |-> n, valid |-> valid,
     reason |-> reason]

EmaInvalid(n, reason) == EmaResult(None, None, "False", "negative", n, "False", reason)

compute_ema_state(series, short_period, long_period) ==
    LET n == Len(series.items)
        short_ema_series == compute_ema_series(series, short_period)
        long_ema_series == compute_ema_series(series, long_period)
        short_ema_current == short_ema_series.items[n]
        long_ema_current == long_ema_series.items[n]
        long_ema_previous == long_ema_series.items[n - 1]
        slope == SlopeClass(long_ema_current, long_ema_previous)
    IN  IF ~IsList(series)
        THEN EmaInvalid(0, Msg("Invalid input: prices must be a list.", << >>))
        ELSE IF short_period < 1
        THEN EmaInvalid(n, Msg("Invalid short_period. Must be positive integer.", <<short_period>>))
        ELSE IF long_period < 1
        THEN EmaInvalid(n, Msg("Invalid long_period. Must be positive integer.", <<long_period>>))
        ELSE IF ~PeriodsOrdered(short_period, long_period)
        THEN EmaInvalid(n, Msg("short_period must be less than long_period.",
                               <<short_period, long_period>>))
        ELSE IF n < long_period + 2
        THEN EmaInvalid(n, Msg("Insufficient data: minimum required for period.",
                               <<n, long_period + 2, long_period>>))
        ELSE IF short_ema_series = None
        THEN EmaInvalid(n, Msg("Failed to compute short EMA series.", << >>))
        ELSE IF long_ema_series = None
        THEN EmaInvalid(n, Msg("Failed to compute long EMA series.", << >>))
        ELSE EmaResult(short_ema_current, long_ema_current,
                       PyBool(FracGt(short_ema_current, long_ema_current)),
                       slope, n, "True",
                       Msg("EMA state computed.",
                           <<short_period, short_ema_current, long_period,
                             long_ema_current>>))

DefaultShortPeriod == 3
DefaultLongPeriod == 8

--------------------------------------------------------------------------
(* strategies/bwb_builder.py *)

\* Prices, strikes and deltas are integers in a unit of which the fourth
\* decimal place (0.0001, the resolution of round(x, 4)) holds UnitsPerTick.
\* A number held in an option record is PyNum(n); a key may be missing or
\* hold None.  Bids and asks are even numbers of units, so the midpoint of two
\* of them is a whole number of units; strikes are whole ticks.
UnitsPerTick == 3

STRUCTURE_PUT_CREDIT_BWB == "PUT_CREDIT_BWB"
STRUCTURE_CALL_DEBIT_BWB == "CALL_DEBIT_BWB"

\* 0.55 and 0.45 in units
TARGET_DELTA_PUT_SHORT == 16500
TARGET_DELTA_CALL_SHORT == 13500

Abs(x) == IF x < 0 THEN -x ELSE x

\* round(x, 4): the nearest whole tick
Round4(x) == UnitsPerTick * ((2 * x + UnitsPerTick) \div (2 * UnitsPerTick))

Returned(v) == [raised |-> FALSE, value |-> v]
Raised == [raised |-> TRUE, value |-> None]

\* line 221
_filter_options(items, option_type) ==
    SelectSeq(items, LAMBDA opt : DictGet(opt, "type", "None") = option_type)

\* position of o in a list sorted by strike: after every element whose strike
\* is not greater (sorted() is stable)
RECURSIVE InsertByStrike(_, _)
InsertByStrike(sorted, o) ==
    IF sorted = << >> THEN <<o>>
    ELSE IF sorted[Len(sorted)].strike.num <= o.strike.num THEN Append(sorted, o)
    ELSE Append(InsertByStrike(SubSeq(sorted, 1, Len(sorted) - 1), o), sorted[Len(sorted)])

RECURSIVE StableSort(_)
StableSort(items) ==
    IF items = << >> THEN << >>
    ELSE InsertByStrike(StableSort(SubSeq(items, 1, Len(items) - 1)), items[Len(items)])

\* a plausible slip: the records are taken in chain order, unsorted
SortedByStrike_chain_order(items) ==
    IF \E i \in DOMAIN items : "strike" \notin DOMAIN items[i] THEN Raised
    ELSE IF Len(items) >= 2 /\ \E i \in DOMAIN items : items[i].strike = None THEN Raised
    ELSE Returned(items)

\* sorted(options, key=lambda x: x["strike"]): KeyError on a record without
\* strike, TypeError when a None strike has to be compared
SortedByStrike(items) ==
    IF \E i \in DOMAIN items : "strike" \notin DOMAIN items[i] THEN Raised
    ELSE IF Len(items) >= 2 /\ \E i \in DOMAIN items : items[i].strike = None THEN Raised
    ELSE IF Len(items) < 2 THEN Returned(items)
    ELSE Returned(StableSort(items))

\* lines 235-242: the scan from position i on, given the best so far (None and
\* no distance before any record with a delta was seen)
RECURSIVE ClosestFrom(_, _, _, _, _)
ClosestFrom(options, target_delta, i, closest, min_distance) ==
    IF i > Len(options) THEN closest
    ELSE LET delta == DictGet(options[i], "delta", None)
             distance == Abs(Abs(delta.num) - target_delta)
         IN  IF delta = None
             THEN ClosestFrom(options, target_delta, i + 1, closest, min_distance)
             ELSE IF closest = None \/ distance < min_distance
             THEN ClosestFrom(options, target_delta, i + 1, options[i], distance)
             ELSE ClosestFrom(options, target_delta, i + 1, closest, min_distance)

\* a plausible slip: `<=` in the comparison of line 240, so the last of several
\* equally close records wins
RECURSIVE ClosestFrom_last_wins(_, _, _, _, _)
ClosestFrom_last_wins(options, target_delta, i, closest, min_distance) ==
    IF i > Len(options) THEN closest
    ELSE LET delta == DictGet(options[i], "delta", None)
             distance == Abs(Abs(delta.num) - target_delta)
         IN  IF delta = None
             THEN ClosestFrom_last_wins(options, target_delta, i + 1, closest, min_distance)
             ELSE IF closest = None \/ distance <= min_distance
             THEN ClosestFrom_last_wins(options, target_delta, i + 1, options[i], distance)
             ELSE ClosestFrom_last_wins(options, target_delta, i + 1, closest, min_distance)

_find_closest_delta_last_wins(options, target_delta) ==
    ClosestFrom_last_wins(options, target_delta, 1, None, 0)

\* lines 224-244
_find_closest_delta(options, target_delta) ==
    ClosestFrom(options, target_delta, 1, None, 0)

\* list.index(x): the first position holding x (0-based)
IndexOf(strikes, x) ==
    (CHOOSE i \in DOMAIN strikes :
        strikes[i] = x /\ \A j \in 1..(i - 1) : strikes[j] # x) - 1

\* lines 252-255
_find_option_by_strike(options, strike) ==
    IF \E i \in DOMAIN options : DictGet(options[i], "strike", None) = strike
    THEN options[CHOOSE i \in DOMAIN options :
                    /\ DictGet(options[i], "strike", None) = strike
                    /\ \A j \in 1..(i - 1) : DictGet(options[j], "strike", None) # strike]
    ELSE None

\* a plausible slip: the ask taken for the price
_mid_price_ask_only(option) ==
    LET bid == DictGet(option, "bid", PyNum(0))
        ask == DictGet(option, "ask", PyNum(0))
    IN  IF bid = None \/ ask = None THEN Raised
        ELSE Returned(ask.num)

\* lines 260-262: a missing bid or ask counts as 0.0; None cannot be added
_mid_price(option) ==
    LET bid == DictGet(option, "bid", PyNum(0))
        ask == DictGet(option, "ask", PyNum(0))
    IN  IF bid = None \/ ask = None THEN Raised
        ELSE Returned((bid.num + ask.num) \div 2)

\* a plausible slip: every leg is entered as a single lot
_make_leg_single_lot(action, quantity, option_type, strike, price, delta) ==
    [action |-> action, quantity |-> 1, type |-> option_type,
     strike |-> strike, price |-> Round4(price),
     delta |-> IF delta = None THEN None ELSE PyNum(Round4(delta.num))]

\* lines 265-281
_make_leg(action, quantity, option_type, strike, price, delta) ==
    [action |-> action, quantity |-> quantity, type |-> option_type,
     strike |-> strike, price |-> Round4(price),
     delta |-> IF delta = None THEN None ELSE PyNum(Round4(delta.num))]

BwbResult(stype, legs, net_premium, max_loss, valid, reason) ==
    [stype |-> stype, legs |-> legs, net_premium |-> net_premium,
     max_loss |-> max_loss, valid |-> valid, reason |-> reason]

\* the result as initialised, with a reason set
BwbInvalid(stype, reason) ==
    BwbResult(stype, << >>, 0, None, "False", reason)

\* line 132 / line 205
FlooredLoss(max_loss) == IF max_loss > 0 THEN Round4(max_loss) ELSE 0

\* a plausible slip: the distance to the far wing instead of the near long
SpreadWidth_far(short_strike, long_upper_strike, long_lower_strike, near_is_upper) ==
    IF near_is_upper THEN short_strike - long_lower_strike
    ELSE long_upper_strike - short_strike

\* line 123 (upper_spread_width) / line 196 (lower_spread_width)
SpreadWidth(short_strike, long_upper_strike, long_lower_strike, near_is_upper) ==
    IF near_is_upper THEN long_upper_strike - short_strike
    ELSE short_strike - long_lower_strike

\* lines 117-140 and 190-213: pricing, legs and economics once the three
\* records are known; near_strike is the long strike that bounds the risk
BwbPriced(stype, option_type, short, long_upper, long_lower, near_is_upper, text) ==
    LET short_price == _mid_price(short)
        long_upper_price == _mid_price(long_upper)
        long_lower_price == _mid_price(long_lower)
        net_premium == (2 * short_price.value) - long_upper_price.value
                          - long_lower_price.value
        width == SpreadWidth(short.strike.num, long_upper.strike.num,
                             long_lower.strike.num, near_is_upper)
        max_loss == FlooredLoss(width - net_premium)
    IN  IF short_price.raised \/ long_upper_price.raised \/ long_lower_price.raised
        THEN Raised
        ELSE Returned(BwbResult(stype,
                <<_make_leg("SELL", 2, option_type, short.strike.num,
                            short_price.value, DictGet(short, "delta", None)),
                  _make_leg("BUY", 1, option_type, long_upper.strike.num,
                            long_upper_price.value, DictGet(long_upper, "delta", None)),
                  _make_leg("BUY", 1, option_type, long_lower.strike.num,
                            long_lower_price.value, DictGet(long_lower, "delta", None))>>,
                Round4(net_premium), PyNum(max_loss), "True",
                Msg(text, <<short.strike, long_upper.strike, long_lower.strike,
                            net_premium, max_loss>>)))

\* the steps shared by the two builders: up is the offset of the upper long
\* strike from the short strike in the sorted strike list, down that of the
\* lower long strike
BwbSelect(items, stype, option_type, target_delta, up, down, near_is_upper, text) ==
    LET options == _filter_options(items, option_type)
        sorted == SortedByStrike(options)
        strikes == [i \in DOMAIN sorted.value |-> sorted.value[i].strike]
        short == _find_closest_delta(sorted.value, target_delta)
        short_idx == IndexOf(strikes, short.strike)
        long_upper_strike == strikes[short_idx + up + 1]
        long_lower_strike == strikes[short_idx - down + 1]
        long_upper == _find_option_by_strike(sorted.value, long_upper_strike)
        long_lower == _find_option_by_strike(sorted.value, long_lower_strike)
    IN  IF options = << >>
        THEN Returned(BwbInvalid(stype, Msg("No options of the kind found in chain.", <<option_type>>)))
        ELSE IF sorted.raised THEN Raised
        ELSE IF short = None
        THEN Returned(BwbInvalid(stype, Msg("Could not find option near target delta.", <<option_type>>)))
        ELSE IF short_idx + up >= Len(strikes)
        THEN Returned(BwbInvalid(stype, Msg("No strike available above short strike.", <<short.strike>>)))
        ELSE IF short_idx - down < 0
        THEN Returned(BwbInvalid(stype, Msg("No strike available below short strike.", <<short.strike>>)))
        ELSE IF long_upper = None
        THEN Returned(BwbInvalid(stype, Msg("Could not find option at strike.", <<long_upper_strike>>)))
        ELSE IF long_lower = None
        THEN Returned(BwbInvalid(stype, Msg("Could not find option at strike.", <<long_lower_strike>>)))
        ELSE BwbPriced(stype, option_type, short, long_upper, long_lower,
                       near_is_upper, text)

\* lines 70-140: short at ~55 delta, long one strike above, wing two strikes below
_build_put_credit_bwb(items, stype) ==
    BwbSelect(items, stype, "put", TARGET_DELTA_PUT_SHORT, 1, 2, TRUE,
              "PUT credit BWB built")

\* lines 143-213: short at ~45 delta, wing two strikes above, long one strike below
_build_call_debit_bwb(items, stype) ==
    BwbSelect(items, stype, "call", TARGET_DELTA_CALL_SHORT, 2, 1, FALSE,
              "CALL debit BWB built")

\* lines 52-67
build_bwb_structure(chain, stype) ==
    LET built == IF stype = STRUCTURE_PUT_CREDIT_BWB
                 THEN _build_put_credit_bwb(chain.items, stype)
                 ELSE _build_call_debit_bwb(chain.items, stype)
    IN  IF ~IsList(chain) \/ Len(chain.items) = 0
        THEN BwbInvalid(stype, Msg("Invalid or empty option chain provided.", << >>))
        ELSE IF stype \notin {STRUCTURE_PUT_CREDIT_BWB, STRUCTURE_CALL_DEBIT_BWB}
        THEN BwbInvalid(stype, Msg("Unknown structure type", <<stype>>))
        ELSE IF built.raised
        THEN BwbInvalid(stype, Msg("Unexpected error during structure construction.", << >>))
        ELSE built.value

\* Inputs of build_bwb_structure

MaxChain == 4
MaxQuote == 2

\* an option record at strike k ticks; a field given as Missing is left out
Missing == [missing |-> TRUE]
Field(name, v) == IF v = Missing THEN << >> ELSE [x \in {name} |-> v]
Opt(type, strike, delta, bid, ask) ==
    (IF type = "Missing" THEN << >> ELSE [type |-> type]) @@ Field("strike", strike) @@ Field("delta", delta)
        @@ Field("bid", bid) @@ Field("ask", ask)

Strike(k) == PyNum(k * UnitsPerTick)

OptionType(st) == IF st = STRUCTURE_PUT_CREDIT_BWB THEN "put" ELSE "call"
OtherType(st) == IF st = STRUCTURE_PUT_CREDIT_BWB THEN "call" ELSE "put"

\* deltas just off -0.55 and 0.45
DeltaValues == {PyNum(-16501), PyNum(13501)}
NearDelta(st) == IF st = STRUCTURE_PUT_CREDIT_BWB THEN PyNum(-16501) ELSE PyNum(13501)
FarDelta(st) == IF st = STRUCTURE_PUT_CREDIT_BWB THEN PyNum(13501) ELSE PyNum(-16501)

QuoteValues == {PyNum(2 * q) : q \in 0..MaxQuote}

\* the records of chains given in any order, with repeated strikes: every
\* record is of the required kind and quoted by its strike
OrderedRecords(st) ==
    {Opt(OptionType(st), Strike(k), d, PyNum(2 * k), PyNum(2 * k + 2)) :
        k \in 1..MaxChain, d \in DeltaValues}

\* the position of the short record in a four-strike chain that builds
ShortPosition(st) == IF st = STRUCTURE_PUT_CREDIT_BWB THEN 3 ELSE 2

SkeletonDelta(st, k) == IF k = ShortPosition(st) THEN NearDelta(st) ELSE FarDelta(st)

\* the strikes of the three legs of a four-strike chain
LegPositions(st) == IF st = STRUCTURE_PUT_CREDIT_BWB THEN {1, 3, 4} ELSE {1, 2, 4}

Quotes == QuoteValues \cup {Missing, None}

\* a chain of four strikes whose legs are quoted by b (bids) and a (asks)
QuotedChain(st, b, a) ==
    PyList([k \in 1..4 |->
              Opt(OptionType(st), Strike(k), SkeletonDelta(st, k),
                  IF k \in LegPositions(st) THEN b[k] ELSE PyNum(2),
                  IF k \in LegPositions(st) THEN a[k] ELSE PyNum(4))])

\* the record at strike k of a four-strike chain, as it should be or of the
\* other kind or lacking its type, strike or delta
DamagedRecords(st, k) ==
    {Opt(OptionType(st), Strike(k), d, PyNum(2), PyNum(4)) :
        d \in {SkeletonDelta(st, k), Missing, None}}
    \cup {Opt(OptionType(st), x, SkeletonDelta(st, k), PyNum(2), PyNum(4)) :
            x \in {Missing, None}}
    \cup {Opt(t, Strike(k), SkeletonDelta(st, k), PyNum(2), PyNum(4)) :
            t \in {OtherType(st), "Missing"}}

\* a record of the other kind, at the strike of the short
OtherRecord(st) ==
    Opt(OtherType(st), Strike(ShortPosition(st)), NearDelta(st), PyNum(2), PyNum(4))

StructureTypes == {STRUCTURE_PUT_CREDIT_BWB, STRUCTURE_CALL_DEBIT_BWB}

InitBwb ==
    /\ PipelineIdle
    /\ BacktestIdle
    /\ EmaIdle
    /\ PaperIdle
    /\ SeriesIdle
    /\ PaperCallsIdle
    /\ pc = "bwb_call"
    /\ monday_date = None
    /\ calendar = None
    /\ holiday_result = None
    /\ ema_state = None
    /\ entry_context = None
    /\ entry_decision = None
    /\ bwb_structure = None
    /\ \/ /\ structure_type \in StructureTypes
          /\ \/ \E n \in 0..MaxChain :
                  \E items \in [1..n -> OrderedRecords(structure_type)] :
                      option_chain = PyList(items)
             \/ \E b \in [LegPositions(structure_type) -> Quotes] :
                  \E a \in [LegPositions(structure_type) -> Quotes] :
                      option_chain = QuotedChain(structure_type, b, a)
             \/ \E r1 \in DamagedRecords(structure_type, 1) :
                  \E r2 \in DamagedRecords(structure_type, 2) :
                    \E r3 \in DamagedRecords(structure_type, 3) :
                      \E r4 \in DamagedRecords(structure_type, 4) :
                        \E rest \in {<< >>, <<OtherRecord(structure_type)>>} :
                          option_chain = PyList(<<r1, r2, r3, r4>> \o rest)
             \/ option_chain \in {None, PyInt(5)}
       \/ /\ structure_type \in {"IRON_CONDOR", "None"}
          /\ option_chain \in {None, PyList(<< >>),
                                PyList(<<Opt("put", Strike(1), PyNum(-16501), PyNum(2), PyNum(4))>>)}

BuildBwbStructure ==
    /\ pc = "bwb_call"
    /\ bwb_structure' = build_bwb_structure(option_chain, structure_type)
    /\ pc' = "bwb_done"
    /\ UNCHANGED <<monday_date, calendar, holiday_result, ema_state, entry_context,
                   entry_decision, option_chain, structure_type,
                   prices, entry_time_valid, spot_proxy, calls,
                   weekly_results, metrics,
                   periods,
                   run_result, journal,
                   ema_period, ema_series,
                   paper_calls>>

NextBwb == BuildBwbStructure

SpecBwb == InitBwb /\ [][NextBwb]_vars

--------------------------------------------------------------------------
(* signals/entry_evaluator.py *)

DECISION_TRADE_ALLOWED == "TRADE ALLOWED"
DECISION_NO_TRADE == "NO TRADE"

NoBlock == [raised |-> FALSE, triggered |-> << >>, reasons |-> << >>]
OneBlock(tag, reason) == [raised |-> FALSE, triggered |-> <<tag>>, reasons |-> <<reason>>]
CheckRaised == [raised |-> TRUE, triggered |-> << >>, reasons |-> << >>]

\* a plausible slip: only the shape of the holiday result is checked
HolidayCheck_shape_only(h) ==
    IF ~IsDict(h)
    THEN OneBlock("holiday_data_invalid",
                  Msg("HARD BLOCK: Holiday result is missing or malformed.", ""))
    ELSE NoBlock

\* lines 101-107
HolidayCheck(h) ==
    IF ~IsDict(h)
    THEN OneBlock("holiday_data_invalid",
                  Msg("HARD BLOCK: Holiday result is missing or malformed.", ""))
    ELSE IF TruthRaises(DictGet(h, "is_trade_week", "False")) THEN CheckRaised
    ELSE IF ~Truth(DictGet(h, "is_trade_week", "False"))
    THEN OneBlock("holiday_block",
                  Msg("HARD BLOCK: ", DictGet(h, "reason", "Holiday check failed.")))
    ELSE NoBlock

\* a plausible slip: only the shape of the entry context is checked
EntryContextCheck_shape_only(c) ==
    IF ~IsDict(c)
    THEN OneBlock("entry_context_invalid",
                  Msg("HARD BLOCK: Entry context is missing or malformed.", ""))
    ELSE NoBlock

\* lines 109-114
EntryContextCheck(c) ==
    IF ~IsDict(c)
    THEN OneBlock("entry_context_invalid",
                  Msg("HARD BLOCK: Entry context is missing or malformed.", ""))
    ELSE IF TruthRaises(DictGet(c, "entry_time_valid", "False")) THEN CheckRaised
    ELSE IF ~Truth(DictGet(c, "entry_time_valid", "False"))
    THEN OneBlock("entry_time_invalid",
                  Msg("HARD BLOCK: Entry time is outside the valid window.", ""))
    ELSE NoBlock

\* lines 116-122
EmaCheck(e) ==
    IF ~IsDict(e)
    THEN OneBlock("ema_data_invalid",
                  Msg("HARD BLOCK: EMA state is missing or malformed.", ""))
    ELSE IF TruthRaises(DictGet(e, "valid", "False")) THEN CheckRaised
    ELSE IF ~Truth(DictGet(e, "valid", "False"))
    THEN OneBlock("ema_invalid",
                  Msg("HARD BLOCK: ", DictGet(e, "reason", "EMA data is invalid.")))
    ELSE NoBlock

\* a plausible slip: the checks chained with elif, so the first failure ends Tier 1
_evaluate_hard_blocks_short_circuit(h, e, c) ==
    LET hol == HolidayCheck(h)
        ctx == EntryContextCheck(c)
        ema == EmaCheck(e)
    IN  IF hol.raised THEN CheckRaised
        ELSE IF hol.triggered # << >> THEN hol
        ELSE IF ctx.raised THEN CheckRaised
        ELSE IF ctx.triggered # << >> THEN ctx
        ELSE ema

\* lines 86-124: the three checks run in order; an exception in any of them leaves the function
_evaluate_hard_blocks(h, e, c) ==
    LET hol == HolidayCheck(h)
        ctx == EntryContextCheck(c)
        ema == EmaCheck(e)
    IN  IF hol.raised \/ ctx.raised \/ ema.raised
        THEN CheckRaised
        ELSE [raised |-> FALSE,
              triggered |-> hol.triggered \o ctx.triggered \o ema.triggered,
              reasons |-> hol.reasons \o ctx.reasons \o ema.reasons]

\* lines 138-143
ShortAboveLongCheck(e) ==
    IF TruthRaises(DictGet(e, "short_above_long", "False")) THEN CheckRaised
    ELSE IF ~Truth(DictGet(e, "short_above_long", "False"))
    THEN OneBlock("short_ema_not_above_long",
                  Msg("SIGNAL FAIL: 3-period EMA is not above 8-period EMA.", ""))
    ELSE NoBlock

\* a plausible slip: only a positive slope passes
SlopeCheck_positive_only(e) ==
    IF TruthRaises(DictGet(e, "long_ema_slope", "negative")) THEN CheckRaised
    ELSE IF DictGet(e, "long_ema_slope", "negative") # "positive"
    THEN OneBlock("long_ema_slope_negative",
                  Msg("SIGNAL FAIL: 8-period EMA slope is negative.", ""))
    ELSE NoBlock

\* lines 145-150: the comparison with "negative" is a truth test as well
SlopeCheck(e) ==
    IF TruthRaises(DictGet(e, "long_ema_slope", "negative")) THEN CheckRaised
    ELSE IF DictGet(e, "long_ema_slope", "negative") = "negative"
    THEN OneBlock("long_ema_slope_negative",
                  Msg("SIGNAL FAIL: 8-period EMA slope is negative.", ""))
    ELSE NoBlock

_evaluate_signal_conditions(e) ==
    LET sal == ShortAboveLongCheck(e)
        slope == SlopeCheck(e)
    IN  IF sal.raised \/ slope.raised
        THEN CheckRaised
        ELSE [raised |-> FALSE,
              triggered |-> sal.triggered \o slope.triggered,
              reasons |-> sal.reasons \o slope.reasons]

ErrorReason == Msg("Unexpected error during evaluation. Defaulting to NO TRADE.", "")

EntryResult(d, hb, sf, rs) ==
    [decision |-> d, hard_blocks_triggered |-> hb, signal_failures |-> sf, reasons |-> rs]

\* a plausible slip: no early return after the hard blocks, so the signals decide
evaluate_entry_no_early_return(h, e, c) ==
    LET hard_blocks == _evaluate_hard_blocks(h, e, c)
        signal_failures == _evaluate_signal_conditions(e)
    IN  IF hard_blocks.raised \/ signal_failures.raised
        THEN EntryResult(DECISION_NO_TRADE, <<"evaluation_error">>, << >>, <<ErrorReason>>)
        ELSE IF signal_failures.triggered # << >>
        THEN EntryResult(DECISION_NO_TRADE, hard_blocks.triggered,
                         signal_failures.triggered,
                         hard_blocks.reasons \o signal_failures.reasons)
        ELSE EntryResult(DECISION_TRADE_ALLOWED, hard_blocks.triggered,
                         signal_failures.triggered,
                         Append(hard_blocks.reasons \o signal_failures.reasons,
                                Msg("All hard blocks cleared and signal conditions met.", "")))

\* a plausible slip: the signal conditions are evaluated and recorded before the
\* return on a hard block
evaluate_entry_records_signals(h, e, c) ==
    LET hard_blocks == _evaluate_hard_blocks(h, e, c)
        signal_failures == _evaluate_signal_conditions(e)
    IN  IF hard_blocks.raised \/ (IsDict(e) /\ signal_failures.raised)
        THEN EntryResult(DECISION_NO_TRADE, <<"evaluation_error">>, << >>, <<ErrorReason>>)
        ELSE IF hard_blocks.triggered # << >> /\ ~IsDict(e)
        THEN EntryResult(DECISION_NO_TRADE, hard_blocks.triggered, << >>, hard_blocks.reasons)
        ELSE IF hard_blocks.triggered # << >> \/ signal_failures.triggered # << >>
        THEN EntryResult(DECISION_NO_TRADE, hard_blocks.triggered,
                         signal_failures.triggered,
                         hard_blocks.reasons \o signal_failures.reasons)
        ELSE EntryResult(DECISION_TRADE_ALLOWED, hard_blocks.triggered,
                         signal_failures.triggered,
                         Append(hard_blocks.reasons \o signal_failures.reasons,
                                Msg("All hard blocks cleared and signal conditions met.", "")))

\* a plausible slip: an error in the signal conditions is swallowed where it
\* happens, and the evaluation goes on as if no signal had failed
evaluate_entry_signal_error_ignored(h, e, c) ==
    LET hard_blocks == _evaluate_hard_blocks(h, e, c)
        signal_failures == _evaluate_signal_conditions(e)
    IN  IF hard_blocks.raised
        THEN EntryResult(DECISION_NO_TRADE, <<"evaluation_error">>, << >>, <<ErrorReason>>)
        ELSE IF hard_blocks.triggered # << >>
        THEN EntryResult(DECISION_NO_TRADE, hard_blocks.triggered, << >>, hard_blocks.reasons)
        ELSE IF ~signal_failures.raised /\ signal_failures.triggered # << >>
        THEN EntryResult(DECISION_NO_TRADE, hard_blocks.triggered,
                         signal_failures.triggered,
                         hard_blocks.reasons \o signal_failures.reasons)
        ELSE EntryResult(DECISION_TRADE_ALLOWED, hard_blocks.triggered, << >>,
                         Append(hard_blocks.reasons,
                                Msg("All hard blocks cleared and signal conditions met.", "")))

\* lines 49-83
evaluate_entry(h, e, c) ==
    LET hard_blocks == _evaluate_hard_blocks(h, e, c)
        signal_failures == _evaluate_signal_conditions(e)
    IN  IF hard_blocks.raised
        THEN \* except: result still holds its initial lists
             EntryResult(DECISION_NO_TRADE, <<"evaluation_error">>, << >>, <<ErrorReason>>)
        ELSE IF hard_blocks.triggered # << >>
        THEN EntryResult(DECISION_NO_TRADE, hard_blocks.triggered, << >>, hard_blocks.reasons)
        ELSE IF signal_failures.raised
        THEN \* except: hard_blocks_triggered and reasons were already assigned
             EntryResult(DECISION_NO_TRADE,
                         Append(hard_blocks.triggered, "evaluation_error"), << >>,
                         Append(hard_blocks.reasons, ErrorReason))
        ELSE IF signal_failures.triggered # << >>
        THEN EntryResult(DECISION_NO_TRADE, hard_blocks.triggered,
                         signal_failures.triggered,
                         hard_blocks.reasons \o signal_failures.reasons)
        ELSE EntryResult(DECISION_TRADE_ALLOWED, hard_blocks.triggered,
                         signal_failures.triggered,
                         Append(hard_blocks.reasons \o signal_failures.reasons,
                                Msg("All hard blocks cleared and signal conditions met.", "")))

--------------------------------------------------------------------------
(* Inputs of evaluate_entry: every shape of the three arguments *)

FlagValues == {"True", "False", "None", "Truthy", "Raises"}
SlopeValues == {"positive", "zero", "negative", "None", "Raises"}
ReasonValues == {"Monday is a market holiday."}

HolidayArgs ==
    {None, NonDict, EmptyDict}
    \cup {[is_trade_week |-> v] : v \in FlagValues}
    \cup {[is_trade_week |-> v, reason |-> r] : v \in FlagValues, r \in ReasonValues}

ContextArgs ==
    {None, NonDict, EmptyDict, [entry_day |-> "Monday"]}
    \cup {[entry_day |-> "Monday", entry_time_valid |-> v] : v \in FlagValues}

EmaArgs ==
    {None, NonDict, EmptyDict}
    \cup {[valid |-> v, reason |-> "Insufficient data for EMA calculation."] :
            v \in FlagValues}
    \cup {[valid |-> v, short_above_long |-> s] : v \in FlagValues, s \in FlagValues}
    \cup {[valid |-> v, long_ema_slope |-> l] : v \in FlagValues, l \in SlopeValues}
    \cup {[valid |-> v, short_above_long |-> s, long_ema_slope |-> l, reason |-> "EMA computed."] :
            v \in FlagValues, s \in FlagValues, l \in SlopeValues}

InitEntry ==
    /\ PipelineIdle
    /\ BacktestIdle
    /\ EmaIdle
    /\ PaperIdle
    /\ SeriesIdle
    /\ PaperCallsIdle
    /\ pc = "entry_call"
    /\ monday_date = None
    /\ calendar = None
    /\ holiday_result \in HolidayArgs
    /\ ema_state \in EmaArgs
    /\ entry_context \in ContextArgs
    /\ entry_decision = None
    /\ option_chain = None
    /\ structure_type = "None"
    /\ bwb_structure = None

EvaluateEntry ==
    /\ pc = "entry_call"
    /\ entry_decision' = evaluate_entry(holiday_result, ema_state, entry_context)
    /\ pc' = "entry_done"
    /\ UNCHANGED <<monday_date, calendar, holiday_result, ema_state, entry_context,
                   option_chain, structure_type, bwb_structure,
                   prices, entry_time_valid, spot_proxy, calls,
                   weekly_results, metrics,
                   periods,
                   run_result, journal,
                   ema_period, ema_series,
                   paper_calls>>

NextEntry == EvaluateEntry

SpecEntry == InitEntry /\ [][NextEntry]_vars

--------------------------------------------------------------------------
(* run_week.py *)

\* run_weekly_pipeline is followed step by step: pc is "pipe_start" before line
\* 58, "pipe_holiday", "pipe_ema", "pipe_entry", "pipe_bwb" before the call of
\* that stage, "pipe_returned" after a return and "pipe_raised" when an
\* exception left the function.  The keys holiday_result, ema_state,
\* entry_decision and bwb_structure of its result are the variables of those
\* names.  result["macro_events"] (line 65) is advisory, cannot raise and feeds
\* no stage.  Every stage catches its own exceptions, so the handler of lines
\* 91-99 is not entered.

\* line 63: prices[-1] if prices else None
SpotProxy(p) ==
    IF p = None THEN Returned(None)
    ELSE IF p.kind = "array" THEN Raised
    ELSE IF p.kind = "int" THEN (IF p.value = 0 THEN Returned(None) ELSE Raised)
    ELSE IF Len(p.items) = 0 THEN Returned(None)
    ELSE IF Len(p.items) \in p.bad THEN Returned(NonDict)
    ELSE Returned(PyNum(p.items[Len(p.items)]))

\* a plausible slip: the test on the decision dropped
TradeAllowed_always(decision) == TRUE

\* line 83
TradeAllowed(decision) ==
    DictGet(decision, "decision", "None") = DECISION_TRADE_ALLOWED

\* Inputs of run_weekly_pipeline

MaxPrices == 10

Rising == PyList([i \in 1..MaxPrices |-> 100 * i])
Falling == PyList([i \in 1..MaxPrices |-> 100 * (MaxPrices + 1 - i)])
Flat == PyList([i \in 1..MaxPrices |-> 5])

PriceArgs ==
    {None, PyInt(0), PyInt(5), [kind |-> "array"], PyList(<< >>), PyList(<<1, 2, 3>>),
     Rising, Falling, Flat,
     [kind |-> "list", items |-> Rising.items, bad |-> {2}]}

\* 2024-01-08 and 2024-01-15 are Mondays, 2024-01-09 is a Tuesday
PipelineDates ==
    {None, BadString, [m |-> 1, d |-> 8], [m |-> 1, d |-> 9], [m |-> 1, d |-> 15]}

PipelineCalendars ==
    {[mode |-> "answers", closed |-> c] : c \in {{}, {0}, {4}}}
    \cup {[mode |-> "load_raises", closed |-> {}]}

PipelineChains ==
    {None}
    \cup {QuotedChain(st, [k \in LegPositions(st) |-> PyNum(2)],
                          [k \in LegPositions(st) |-> PyNum(4)]) : st \in StructureTypes}
    \cup {QuotedChain(STRUCTURE_PUT_CREDIT_BWB,
                      [k \in LegPositions(STRUCTURE_PUT_CREDIT_BWB) |-> Missing],
                      [k \in LegPositions(STRUCTURE_PUT_CREDIT_BWB) |-> PyNum(4)])}

InitPipeline ==
    /\ BacktestIdle
    /\ EmaIdle
    /\ PaperIdle
    /\ SeriesIdle
    /\ PaperCallsIdle
    /\ pc = "pipe_start"
    /\ monday_date \in PipelineDates
    /\ calendar \in PipelineCalendars
    /\ entry_time_valid \in {"True", "False", "Raises"}
    /\ prices \in PriceArgs
    /\ option_chain \in PipelineChains
    /\ structure_type \in StructureTypes \cup {"IRON_CONDOR"}
    /\ holiday_result = None
    /\ ema_state = None
    /\ entry_context = None
    /\ entry_decision = None
    /\ bwb_structure = None
    /\ spot_proxy = None
    /\ calls = << >>

\* lines 58-66: the result dict is built, outside the try
PipelineStart ==
    /\ pc = "pipe_start"
    /\ IF SpotProxy(prices).raised
       THEN /\ pc' = "pipe_raised"
            /\ UNCHANGED spot_proxy
       ELSE /\ pc' = "pipe_holiday"
            /\ spot_proxy' = SpotProxy(prices).value
    /\ UNCHANGED <<monday_date, calendar, holiday_result, ema_state, entry_context,
                   entry_decision, option_chain, structure_type, bwb_structure,
                   prices, entry_time_valid, calls,
                   weekly_results, metrics,
                   periods,
                   run_result, journal,
                   ema_period, ema_series,
                   paper_calls>>

\* lines 69-70
HolidayStage ==
    /\ pc = "pipe_holiday"
    /\ calls' = Append(calls, "is_trade_week")
    /\ holiday_result' = is_trade_week(monday_date, calendar)
    /\ pc' = "pipe_ema"
    /\ UNCHANGED <<monday_date, calendar, ema_state, entry_context, entry_decision,
                   option_chain, structure_type, bwb_structure,
                   prices, entry_time_valid, spot_proxy,
                   weekly_results, metrics,
                   periods,
                   run_result, journal,
                   ema_period, ema_series,
                   paper_calls>>

\* lines 72-73
EmaStage ==
    /\ pc = "pipe_ema"
    /\ calls' = Append(calls, "compute_ema_state")
    /\ ema_state' = compute_ema_state(prices, DefaultShortPeriod, DefaultLongPeriod)
    /\ pc' = "pipe_entry"
    /\ UNCHANGED <<monday_date, calendar, holiday_result, entry_context, entry_decision,
                   option_chain, structure_type, bwb_structure,
                   prices, entry_time_valid, spot_proxy,
                   weekly_results, metrics,
                   periods,
                   run_result, journal,
                   ema_period, ema_series,
                   paper_calls>>

\* lines 75-84: the decision, and the return when it is not TRADE ALLOWED
EntryStage ==
    /\ pc = "pipe_entry"
    /\ calls' = Append(calls, "evaluate_entry")
    /\ entry_context' = [entry_day |-> "Monday", entry_time_valid |-> entry_time_valid]
    /\ entry_decision' = evaluate_entry(holiday_result, ema_state, entry_context')
    /\ pc' = IF TradeAllowed(entry_decision') THEN "pipe_bwb" ELSE "pipe_returned"
    /\ UNCHANGED <<monday_date, calendar, holiday_result, ema_state,
                   option_chain, structure_type, bwb_structure,
                   prices, entry_time_valid, spot_proxy,
                   weekly_results, metrics,
                   periods,
                   run_result, journal,
                   ema_period, ema_series,
                   paper_calls>>

\* lines 86-89
BwbStage ==
    /\ pc = "pipe_bwb"
    /\ calls' = Append(calls, "build_bwb_structure")
    /\ bwb_structure' = build_bwb_structure(option_chain, structure_type)
    /\ pc' = "pipe_returned"
    /\ UNCHANGED <<monday_date, calendar, holiday_result, ema_state, entry_context,
                   entry_decision, option_chain, structure_type,
                   prices, entry_time_valid, spot_proxy,
                   weekly_results, metrics,
                   periods,
                   run_result, journal,
                   ema_period, ema_series,
                   paper_calls>>

NextPipeline ==
    \/ PipelineStart
    \/ HolidayStage
    \/ EmaStage
    \/ EntryStage
    \/ BwbStage

SpecPipeline == InitPipeline /\ [][NextPipeline]_vars

--------------------------------------------------------------------------
(* backtest/evaluator.py *)

\* pnl and max_loss are whole numbers of currency units, held as PyNum(n); a
\* metric that the code passes through round(x, 4) is an integer number of
\* ten-thousandths.  NonNumber is an object that sum() cannot add.

OUTCOME_WIN == "WIN"
OUTCOME_LOSS == "LOSS"
OUTCOME_SKIPPED == "SKIPPED"

NonNumber == [nonnumber |-> TRUE]

IsNum(v) == "num" \in DOMAIN v

\* round(num / den, 4) for den > 0, in ten-thousandths; a tie goes to the even
\* neighbour
RoundRatio(num, den) ==
    LET scaled == 10000 * num
        low == scaled \div den
        twice == 2 * (scaled - low * den)
    IN  IF twice < den THEN low
        ELSE IF twice > den THEN low + 1
        ELSE IF low % 2 = 0 THEN low
        ELSE low + 1

\* lines 92-105
_empty_result ==
    [total_trades |-> 0, wins |-> 0, losses |-> 0, win_rate |-> 0,
     average_win |-> 0, average_loss |-> 0, expectancy |-> 0,
     cumulative_pnl |-> 0, max_drawdown |-> 0, return_on_risk |-> 0]

\* a plausible slip: every week the entry rules allowed counts as traded
_filter_traded_weeks_keep_skipped(items) ==
    SelectSeq(items, LAMBDA w : DictGet(w, "decision", "None") = DECISION_TRADE_ALLOWED)

\* a plausible slip: the decision is not looked at, only the outcome
_filter_traded_weeks_any_decision(items) ==
    SelectSeq(items, LAMBDA w : DictGet(w, "outcome", "None") # OUTCOME_SKIPPED)

\* lines 112-116
_filter_traded_weeks(items) ==
    SelectSeq(items, LAMBDA w :
        /\ DictGet(w, "decision", "None") = DECISION_TRADE_ALLOWED
        /\ DictGet(w, "outcome", "None") # OUTCOME_SKIPPED)

\* sum() of a list of numbers
RECURSIVE Sum(_)
Sum(xs) == IF xs = << >> THEN 0 ELSE xs[1].num + Sum(Tail(xs))

\* lines 135-141: the loop from position i on
RECURSIVE DrawdownFrom(_, _, _, _, _)
DrawdownFrom(pnls, i, cumulative, peak, max_dd) ==
    IF i > Len(pnls) THEN max_dd
    ELSE LET c == cumulative + pnls[i].num
             p == IF c > peak THEN c ELSE peak
             d == p - c
         IN  DrawdownFrom(pnls, i + 1, c, p, IF d > max_dd THEN d ELSE max_dd)

\* a plausible slip: the running peak starts at the first cumulative value
_compute_max_drawdown_first_peak(pnls) ==
    IF pnls = << >> THEN 0 ELSE DrawdownFrom(pnls, 2, pnls[1].num, pnls[1].num, 0)

\* lines 119-143
_compute_max_drawdown(pnls) ==
    IF pnls = << >> THEN 0 ELSE DrawdownFrom(pnls, 1, 0, 0, 0)

\* line 62
KnownMaxLosses(traded_weeks) ==
    LET known == SelectSeq(traded_weeks, LAMBDA w : DictGet(w, "max_loss", None) # None)
    IN  [i \in DOMAIN known |-> known[i].max_loss]

Mean(xs) == IF xs = << >> THEN [num |-> 0, den |-> 1] ELSE [num |-> Sum(xs), den |-> Len(xs)]

\* the pnl of a week (0.0 when the key is missing) and its max_loss can be summed
Summable(w) ==
    /\ IsNum(DictGet(w, "pnl", PyNum(0)))
    /\ DictGet(w, "max_loss", None) = None \/ IsNum(DictGet(w, "max_loss", None))

\* lines 52-86 for traded weeks whose numbers can be summed
Metrics(traded_weeks) ==
    LET wins == SelectSeq(traded_weeks, LAMBDA w : DictGet(w, "outcome", "None") = OUTCOME_WIN)
        losses == SelectSeq(traded_weeks, LAMBDA w : DictGet(w, "outcome", "None") = OUTCOME_LOSS)
        total_trades == Len(traded_weeks)
        win_pnls == [i \in DOMAIN wins |-> DictGet(wins[i], "pnl", PyNum(0))]
        loss_pnls == [i \in DOMAIN losses |-> DictGet(losses[i], "pnl", PyNum(0))]
        all_pnls == [i \in DOMAIN traded_weeks |-> DictGet(traded_weeks[i], "pnl", PyNum(0))]
        max_losses == KnownMaxLosses(traded_weeks)
        average_win == Mean(win_pnls)
        average_loss == Mean(loss_pnls)
        expectancy == Mean(all_pnls)
        avg_max_loss == Mean(max_losses)
    IN  [total_trades |-> total_trades,
         wins |-> Len(wins),
         losses |-> Len(losses),
         win_rate |-> RoundRatio(Len(wins), total_trades),
         average_win |-> RoundRatio(average_win.num, average_win.den),
         average_loss |-> RoundRatio(average_loss.num, average_loss.den),
         expectancy |-> RoundRatio(expectancy.num, expectancy.den),
         cumulative_pnl |-> RoundRatio(Sum(all_pnls), 1),
         max_drawdown |-> RoundRatio(_compute_max_drawdown(all_pnls), 1),
         return_on_risk |->
            \* expectancy / avg_max_loss if avg_max_loss > 0 else 0.0
            IF avg_max_loss.num > 0
            THEN RoundRatio(expectancy.num * avg_max_loss.den,
                            expectancy.den * avg_max_loss.num)
            ELSE 0]

\* a plausible slip: weeks whose numbers cannot be summed are left out and the
\* rest is reported
Aggregate_skip_malformed(traded_weeks) ==
    LET usable == SelectSeq(traded_weeks, Summable)
    IN  IF usable = << >> THEN Returned(_empty_result) ELSE Returned(Metrics(usable))

\* lines 52-86 with the TypeError of sum() on a value that is not a number
Aggregate(traded_weeks) ==
    IF \E i \in DOMAIN traded_weeks : ~Summable(traded_weeks[i])
    THEN Raised
    ELSE Returned(Metrics(traded_weeks))

\* lines 42-89
evaluate_backtest(results) ==
    LET traded_weeks == _filter_traded_weeks(results.items)
    IN  IF ~IsList(results) \/ Len(results.items) = 0 THEN _empty_result
        ELSE IF \E i \in DOMAIN results.items : ~IsDict(results.items[i]) THEN _empty_result
        ELSE IF traded_weeks = << >> THEN _empty_result
        ELSE IF Aggregate(traded_weeks).raised THEN _empty_result
        ELSE Aggregate(traded_weeks).value

\* Inputs of evaluate_backtest

MaxWeeks == 4

Week(decision, outcome, pnl, max_loss) ==
    [decision |-> decision]
        @@ (IF outcome = "Missing" THEN << >> ELSE [outcome |-> outcome])
        @@ Field("pnl", pnl)
        @@ Field("max_loss", max_loss)

TradedWeeks ==
    {Week(DECISION_TRADE_ALLOWED, OUTCOME_WIN, PyNum(3), PyNum(4)),
     Week(DECISION_TRADE_ALLOWED, OUTCOME_WIN, PyNum(1), PyNum(0)),
     Week(DECISION_TRADE_ALLOWED, OUTCOME_WIN, PyNum(2), None),
     Week(DECISION_TRADE_ALLOWED, OUTCOME_LOSS, PyNum(-2), PyNum(4)),
     Week(DECISION_TRADE_ALLOWED, OUTCOME_LOSS, PyNum(-5), PyNum(8)),
     Week(DECISION_TRADE_ALLOWED, "Missing", Missing, Missing)}

UntradedWeeks ==
    {Week(DECISION_NO_TRADE, OUTCOME_SKIPPED, PyNum(0), None),
     Week(DECISION_TRADE_ALLOWED, OUTCOME_SKIPPED, PyNum(0), None),
     Week(DECISION_NO_TRADE, OUTCOME_WIN, NonNumber, NonNumber)}

MalformedWeeks ==
    {NonDict, None,
     Week(DECISION_TRADE_ALLOWED, OUTCOME_WIN, NonNumber, PyNum(4)),
     Week(DECISION_TRADE_ALLOWED, OUTCOME_LOSS, None, PyNum(4)),
     Week(DECISION_TRADE_ALLOWED, OUTCOME_WIN, PyNum(3), NonNumber)}

WeekRecords == TradedWeeks \cup UntradedWeeks \cup MalformedWeeks

InitBacktest ==
    /\ PipelineIdle
    /\ EmaIdle
    /\ PaperIdle
    /\ SeriesIdle
    /\ PaperCallsIdle
    /\ pc = "backtest_call"
    /\ monday_date = None
    /\ calendar = None
    /\ holiday_result = None
    /\ ema_state = None
    /\ entry_context = None
    /\ entry_decision = None
    /\ option_chain = None
    /\ structure_type = "None"
    /\ bwb_structure = None
    /\ metrics = None
    /\ \/ weekly_results \in {None, PyInt(5), [kind |-> "str"]}
       \/ \E n \in 0..MaxWeeks : \E items \in [1..n -> WeekRecords] :
             weekly_results = PyList(items)

EvaluateBacktest ==
    /\ pc = "backtest_call"
    /\ metrics' = evaluate_backtest(weekly_results)
    /\ pc' = "backtest_done"
    /\ UNCHANGED <<monday_date, calendar, holiday_result, ema_state, entry_context,
                   entry_decision, option_chain, structure_type, bwb_structure,
                   prices, entry_time_valid, spot_proxy, calls, weekly_results,
                   periods,
                   run_result, journal,
                   ema_period, ema_series,
                   paper_calls>>

NextBacktest == EvaluateBacktest

SpecBacktest == InitBacktest /\ [][NextBacktest]_vars

--------------------------------------------------------------------------
(* indicators/ema_engine.py: compute_ema_state called on its own *)

MaxSeries == 11

\* the steps of the monotone series: below SLOPE_EPSILON and well above it
Steps == {1, 50}

RECURSIVE StepSum(_, _)
StepSum(incs, k) == IF k = 0 THEN 0 ELSE incs[k] + StepSum(incs, k - 1)

\* the series that starts at first and moves by sign * incs[i] at step i
Monotone(first, sign, incs) ==
    PyList([i \in 1..(Len(incs) + 1) |-> first + sign * StepSum(incs, i - 1)])

Constant(c, n) == PyList([i \in 1..n |-> c])

Periods(short_p, long_p) == [short_period |-> short_p, long_period |-> long_p]

DefaultPeriods == Periods(DefaultShortPeriod, DefaultLongPeriod)

PeriodArgs ==
    {DefaultPeriods, Periods(3, 7), Periods(8, 3), Periods(3, 3), Periods(0, 8),
     Periods(3, 0)}

InitEma ==
    /\ BacktestIdle
    /\ PaperIdle
    /\ SeriesIdle
    /\ PaperCallsIdle
    /\ pc = "ema_call"
    /\ monday_date = None
    /\ calendar = None
    /\ holiday_result = None
    /\ ema_state = None
    /\ entry_context = None
    /\ entry_decision = None
    /\ option_chain = None
    /\ structure_type = "None"
    /\ bwb_structure = None
    /\ entry_time_valid = "None"
    /\ spot_proxy = None
    /\ calls = << >>
    /\ \/ /\ periods = DefaultPeriods
          /\ \E n \in 10..MaxSeries : \E incs \in [1..(n - 1) -> Steps] :
                \/ prices = Monotone(1, 1, incs)
                \/ prices = Monotone(600, -1, incs)
       \/ /\ periods \in PeriodArgs
          /\ \/ \E n \in 0..MaxSeries : \E c \in {1, 500} : prices = Constant(c, n)
             \/ prices \in {None, PyInt(5), [kind |-> "str"],
                            [kind |-> "list", items |-> Constant(5, MaxSeries).items,
                             bad |-> {2}]}

ComputeEmaState ==
    /\ pc = "ema_call"
    /\ ema_state' = compute_ema_state(prices, periods.short_period, periods.long_period)
    /\ pc' = "ema_done"
    /\ UNCHANGED <<monday_date, calendar, holiday_result, entry_context,
                   entry_decision, option_chain, structure_type, bwb_structure,
                   prices, entry_time_valid, spot_proxy, calls,
                   weekly_results, metrics, periods,
                   run_result, journal,
                   ema_period, ema_series,
                   paper_calls>>

NextEma == ComputeEmaState

SpecEma == InitEma /\ [][NextEma]_vars

--------------------------------------------------------------------------
(* live/paper_runner.py and journal/weekly_journal.py: run_paper_pipeline *)

\* the value an advisory layer returned
Computed == [computed |-> TRUE]

\* paper_runner.py lines 362-377
_empty_pipeline_result(reason) ==
    [holiday_result |-> None,
     ema_state |-> None,
     entry_decision |-> EntryResult(DECISION_NO_TRADE, <<"data_fetch_error">>, << >>,
                                    <<reason>>),
     bwb_structure |-> None,
     spot_proxy |-> None,
     option_chain |-> PyList(<< >>),
     macro_events |-> << >>]

\* run_week.py lines 58-66 and 91: the dict run_weekly_pipeline returns
PipelineResult ==
    [holiday_result |-> holiday_result,
     ema_state |-> ema_state,
     entry_decision |-> entry_decision,
     bwb_structure |-> bwb_structure,
     spot_proxy |-> spot_proxy,
     option_chain |-> option_chain,
     macro_events |-> << >>]

\* how many of the four advisory computations return before one raises
LayerOutcomes == 0..4

AdvisoryAfter(n) ==
    [confidence_score |-> IF n >= 1 THEN Computed ELSE None,
     execution_quality |-> IF n >= 2 THEN Computed ELSE None,
     gamma_warning |-> IF n >= 3 THEN Computed ELSE None,
     slippage_analysis |-> IF n >= 4 THEN Computed ELSE None]

\* a plausible slip: no try/except around the advisory computations
_compute_advisory_layers_uncaught(pipeline_result, layers) ==
    IF pipeline_result = None THEN Returned(AdvisoryAfter(0))
    ELSE IF pipeline_result.entry_decision.decision # DECISION_TRADE_ALLOWED
         THEN Returned(AdvisoryAfter(0))
    ELSE IF layers < 4 THEN Raised
    ELSE Returned(AdvisoryAfter(4))

\* paper_runner.py lines 299-359: what the layers set before one of them raises
\* is kept, and the exception is swallowed
_compute_advisory_layers(pipeline_result, layers) ==
    IF pipeline_result = None THEN Returned(AdvisoryAfter(0))
    ELSE IF pipeline_result.entry_decision.decision # DECISION_TRADE_ALLOWED
         THEN Returned(AdvisoryAfter(0))
    ELSE Returned(AdvisoryAfter(layers))

\* weekly_journal.py lines 56-88: the decision, bwb_valid and reason_summary
\* columns of the row
JournalRow(result) ==
    LET pipeline_result == result.pipeline_result
    IN  IF pipeline_result # None
        THEN LET decision == pipeline_result.entry_decision.decision
                 bwb == pipeline_result.bwb_structure
                 reasons == pipeline_result.entry_decision.reasons
             IN  [decision |-> decision,
                  bwb_valid |-> IF bwb # None THEN bwb.valid ELSE "None",
                  reason_summary |->
                      IF decision = DECISION_TRADE_ALLOWED
                      THEN Msg("All conditions met", "")
                      ELSE IF Len(reasons) > 0 THEN reasons[1]
                      ELSE Msg("Unknown block reason", "")]
        ELSE IF result.env_validation # None /\ ~result.env_validation.ok
        THEN [decision |-> DECISION_NO_TRADE, bwb_valid |-> "None",
              reason_summary |-> Msg("Env Guard: ", result.env_validation.reason)]
        ELSE [decision |-> "ERROR", bwb_valid |-> "None",
              reason_summary |-> Msg("Pipeline result missing", "")]

\* the outcomes of opening and writing the journal file
CsvOutcomes == {"written", "raises"}

\* weekly_journal.py lines 39-121 and 196-213: the file after the call; a
\* failure to write is swallowed and nothing is raised
log_weekly_run(result, rows, csv) ==
    IF csv = "raises" THEN Returned(rows) ELSE Returned(Append(rows, JournalRow(result)))

\* paper_runner.py lines 111-116: the handler of an unexpected exception, entered
\* after the calls made
PaperExcept(result, csv, made) ==
    LET failed == [result EXCEPT !.pipeline_result =
                      _empty_pipeline_result(Msg("Unexpected error in paper pipeline.", ""))]
    IN  /\ run_result' = failed
        /\ journal' = log_weekly_run(failed, journal, csv).value
        /\ paper_calls' = Append(made, "log_weekly_run")
        /\ pc' = IF log_weekly_run(failed, journal, csv).raised
                 THEN "paper_raised" ELSE "paper_returned"

\* a plausible slip: the verdict of the environment check is not looked at
EnvOk_ignored(env_check) == TRUE

\* paper_runner.py line 75: env_check.get("ok", False)
EnvOk(env_check) == env_check.ok

\* env_guard.py lines 27-80: validate_live_environment never raises
EnvChecks ==
    {[ok |-> TRUE, reason |-> "Environment OK"],
     [ok |-> FALSE, reason |-> "TRADIER_TOKEN not set"]}

\* _fetch_spx_daily_closes returns a list of floats, empty on failure
PaperPrices == {PyList(<< >>), PyList(<<1, 2, 3>>), Rising, Falling, Flat}

\* _fetch_spx_option_chain returns a normalised list, empty on failure
PaperChains ==
    {PyList(<< >>)}
    \cup {QuotedChain(st, [k \in LegPositions(st) |-> PyNum(2)],
                          [k \in LegPositions(st) |-> PyNum(4)]) : st \in StructureTypes}

\* _get_current_monday returns the Monday of the current week
PaperMondays == {[m |-> 1, d |-> 8], [m |-> 1, d |-> 15]}

InitPaper ==
    /\ BacktestIdle
    /\ EmaIdle
    /\ PaperIdle
    /\ SeriesIdle
    /\ PaperCallsIdle
    /\ pc = "paper_start"
    /\ monday_date \in PaperMondays
    /\ calendar \in PipelineCalendars
    /\ entry_time_valid \in {"True", "False"}
    /\ prices \in PaperPrices
    /\ option_chain \in PaperChains
    /\ structure_type \in StructureTypes
    /\ holiday_result = None
    /\ ema_state = None
    /\ entry_context = None
    /\ entry_decision = None
    /\ bwb_structure = None
    /\ spot_proxy = None
    /\ calls = << >>

\* paper_runner.py lines 64-80
PaperEnvCheck ==
    /\ pc = "paper_start"
    /\ \E env_check \in EnvChecks, csv \in CsvOutcomes :
          LET result == [pipeline_result |-> None, env_validation |-> env_check,
                         advisory |-> Missing]
              refused == [result EXCEPT !.pipeline_result =
                             _empty_pipeline_result(
                                 Msg("Environment validation failed: ", env_check.reason))]
              made == Append(paper_calls, "validate_live_environment")
          IN  IF ~EnvOk(env_check)
              THEN IF log_weekly_run(refused, journal, csv).raised
                   THEN PaperExcept(refused, csv, Append(made, "log_weekly_run"))
                   ELSE /\ run_result' = refused
                        /\ journal' = log_weekly_run(refused, journal, csv).value
                        /\ paper_calls' = Append(made, "log_weekly_run")
                        /\ pc' = "paper_returned"
              ELSE /\ run_result' = result
                   /\ journal' = journal
                   /\ paper_calls' = made
                   /\ pc' = "paper_fetch"
    /\ UNCHANGED <<monday_date, calendar, holiday_result, ema_state, entry_context,
                   entry_decision, option_chain, structure_type, bwb_structure,
                   prices, entry_time_valid, spot_proxy, calls,
                   weekly_results, metrics, periods, ema_period, ema_series>>

\* paper_runner.py lines 82-101: the fetches, and the call of run_weekly_pipeline
PaperFetch ==
    /\ pc = "paper_fetch"
    /\ \E csv \in CsvOutcomes :
          LET refused == [run_result EXCEPT !.pipeline_result =
                             _empty_pipeline_result(
                                 Msg("Failed to fetch SPX daily closes.", ""))]
              made == paper_calls \o <<"_get_current_monday", "_fetch_spx_daily_closes">>
          IN  IF Len(prices.items) = 0
              THEN IF log_weekly_run(refused, journal, csv).raised
                   THEN PaperExcept(refused, csv, Append(made, "log_weekly_run"))
                   ELSE /\ run_result' = refused
                        /\ journal' = log_weekly_run(refused, journal, csv).value
                        /\ paper_calls' = Append(made, "log_weekly_run")
                        /\ pc' = "paper_returned"
              ELSE /\ run_result' = run_result
                   /\ journal' = journal
                   /\ paper_calls' = made \o <<"_fetch_spx_option_chain",
                                                "run_weekly_pipeline">>
                   /\ pc' = "pipe_start"
    /\ UNCHANGED <<monday_date, calendar, holiday_result, ema_state, entry_context,
                   entry_decision, option_chain, structure_type, bwb_structure,
                   prices, entry_time_valid, spot_proxy, calls,
                   weekly_results, metrics, periods, ema_period, ema_series>>

\* paper_runner.py lines 103-106, and 111-116 when run_weekly_pipeline or the
\* advisory computation raised
PaperAdvise ==
    /\ run_result # None
    /\ pc \in {"pipe_returned", "pipe_raised"}
    /\ \E layers \in LayerOutcomes, csv \in CsvOutcomes :
          LET advisory == _compute_advisory_layers(PipelineResult, layers)
              made == Append(paper_calls, "_compute_advisory_layers")
          IN  IF pc = "pipe_raised"
              THEN PaperExcept(run_result, csv, paper_calls)
              ELSE IF advisory.raised
              THEN PaperExcept([run_result EXCEPT !.pipeline_result = PipelineResult],
                               csv, made)
              ELSE /\ run_result' = [run_result EXCEPT
                                        !.pipeline_result = PipelineResult,
                                        !.advisory = advisory.value]
                   /\ journal' = journal
                   /\ paper_calls' = made
                   /\ pc' = "paper_log"
    /\ UNCHANGED <<monday_date, calendar, holiday_result, ema_state, entry_context,
                   entry_decision, option_chain, structure_type, bwb_structure,
                   prices, entry_time_valid, spot_proxy, calls,
                   weekly_results, metrics, periods, ema_period, ema_series>>

\* paper_runner.py lines 108-109, and 111-116 when log_weekly_run raised
PaperLog ==
    /\ pc = "paper_log"
    /\ \E csv \in CsvOutcomes :
          IF log_weekly_run(run_result, journal, csv).raised
          THEN PaperExcept(run_result, csv, Append(paper_calls, "log_weekly_run"))
          ELSE /\ run_result' = run_result
               /\ journal' = log_weekly_run(run_result, journal, csv).value
               /\ paper_calls' = Append(paper_calls, "log_weekly_run")
               /\ pc' = "paper_returned"
    /\ UNCHANGED <<monday_date, calendar, holiday_result, ema_state, entry_context,
                   entry_decision, option_chain, structure_type, bwb_structure,
                   prices, entry_time_valid, spot_proxy, calls,
                   weekly_results, metrics, periods, ema_period, ema_series>>

NextPaper ==
    \/ PaperEnvCheck
    \/ PaperFetch
    \/ PipelineStart
    \/ HolidayStage
    \/ EmaStage
    \/ EntryStage
    \/ BwbStage
    \/ PaperAdvise
    \/ PaperLog

SpecPaper == InitPaper /\ [][NextPaper]_vars

--------------------------------------------------------------------------
(* indicators/ema_engine.py: compute_ema_series called on its own *)

MaxSeriesLen == 6

SeriesPrices == {1, 3, 6}

SeriesPeriods == 0..4

InitSeries ==
    /\ BacktestIdle
    /\ EmaIdle
    /\ PaperIdle
    /\ PaperCallsIdle
    /\ pc = "series_call"
    /\ monday_date = None
    /\ calendar = None
    /\ holiday_result = None
    /\ ema_state = None
    /\ entry_context = None
    /\ entry_decision = None
    /\ option_chain = None
    /\ structure_type = "None"
    /\ bwb_structure = None
    /\ entry_time_valid = "None"
    /\ spot_proxy = None
    /\ calls = << >>
    /\ ema_series = None
    /\ ema_period \in SeriesPeriods
    /\ \/ \E n \in 0..MaxSeriesLen : \E items \in [1..n -> SeriesPrices] :
             prices = PyList(items)
       \/ prices \in {None, PyInt(5), [kind |-> "str"],
                      [kind |-> "list", items |-> <<1, 3, 6, 1, 3, 6>>, bad |-> {4}]}

ComputeEmaSeries ==
    /\ pc = "series_call"
    /\ ema_series' = compute_ema_series(prices, ema_period)
    /\ pc' = "series_done"
    /\ UNCHANGED <<monday_date, calendar, holiday_result, ema_state, entry_context,
                   entry_decision, option_chain, structure_type, bwb_structure,
                   prices, entry_time_valid, spot_proxy, calls,
                   weekly_results, metrics, periods,
                   run_result, journal, ema_period,
                   paper_calls>>

NextSeries == ComputeEmaSeries

SpecSeries == InitSeries /\ [][NextSeries]_vars

--------------------------------------------------------------------------
(* strategies/bwb_builder.py: build_bwb_structure on chains without a repeated
   strike *)

MaxStrikes == 4

\* what a chain may hold at strike k: nothing, a record of the required kind
\* with a delta near the target, far from it or without delta, or a record of
\* the other kind
AtStrike(st, k) ==
    {<< >>,
     <<Opt(OtherType(st), Strike(k), NearDelta(st), PyNum(2 * k), PyNum(2 * k + 2))>>}
    \cup {<<Opt(OptionType(st), Strike(k), d, PyNum(2 * k), PyNum(2 * k + 2))>> :
            d \in {NearDelta(st), FarDelta(st), Missing}}

\* the chains over the strikes 1..n, in ascending-strike order
RECURSIVE ChainsUpTo(_, _)
ChainsUpTo(st, n) ==
    IF n = 0 THEN {<< >>}
    ELSE {c \o a : c \in ChainsUpTo(st, n - 1), a \in AtStrike(st, n)}

InitOrder ==
    /\ PipelineIdle
    /\ BacktestIdle
    /\ EmaIdle
    /\ PaperIdle
    /\ SeriesIdle
    /\ PaperCallsIdle
    /\ pc = "bwb_call"
    /\ monday_date = None
    /\ calendar = None
    /\ holiday_result = None
    /\ ema_state = None
    /\ entry_context = None
    /\ entry_decision = None
    /\ bwb_structure = None
    /\ structure_type \in StructureTypes
    /\ \E c \in ChainsUpTo(structure_type, MaxStrikes) : option_chain = PyList(c)

SpecOrder == InitOrder /\ [][NextBwb]_vars

--------------------------------------------------------------------------
(* Claims *)

Range(seq) == {seq[i] : i \in DOMAIN seq}

\* C1: a result with decision TRADE ALLOWED has no hard block and no signal
\* failure, whatever the three arguments were, well-formed or not.
C1_AllowedOnlyIfClean ==
    (pc = "entry_done" /\ entry_decision.decision = DECISION_TRADE_ALLOWED)
        => /\ entry_decision.hard_blocks_triggered = << >>
           /\ entry_decision.signal_failures = << >>

\* a trade is allowed on arguments that are not the documented booleans
C1_Witness ==
    /\ pc = "entry_done"
    /\ entry_decision.decision = DECISION_TRADE_ALLOWED
    /\ holiday_result = [is_trade_week |-> "Truthy"]
    /\ ema_state = [valid |-> "Truthy", short_above_long |-> "True",
                    long_ema_slope |-> "None", reason |-> "EMA computed."]

\* the holiday result is a dict whose is_trade_week tests false
HolidayDisallowed(h) ==
    /\ IsDict(h)
    /\ ~Truth(DictGet(h, "is_trade_week", "False"))
    /\ ~TruthRaises(DictGet(h, "is_trade_week", "False"))

\* no flag of the argument is an object whose truth test raises
OrdinaryFlags(d) ==
    IsDict(d) => \A k \in DOMAIN d : d[k] # "Raises"

\* C2: when the holiday result is disallowed the decision is NO TRADE for every
\* EMA state and entry context; and for every EMA state and entry context whose
\* flags are ordinary objects (the evaluation raises no internal error) the
\* block holiday_block is reported, whatever the indicator values.
C2_HolidayBlockPrecedence ==
    (pc = "entry_done" /\ HolidayDisallowed(holiday_result))
        => /\ entry_decision.decision = DECISION_NO_TRADE
           /\ (OrdinaryFlags(ema_state) /\ OrdinaryFlags(entry_context))
                 => "holiday_block" \in Range(entry_decision.hard_blocks_triggered)

\* TEST 1 of the module: a holiday week with a perfect bullish EMA state
C2_Witness ==
    /\ pc = "entry_done"
    /\ holiday_result = [is_trade_week |-> "False", reason |-> "Monday is a market holiday."]
    /\ ema_state = [valid |-> "True", short_above_long |-> "True",
                    long_ema_slope |-> "positive", reason |-> "EMA computed."]
    /\ entry_context = [entry_day |-> "Monday", entry_time_valid |-> "True"]
    /\ entry_decision.decision = DECISION_NO_TRADE
    /\ entry_decision.hard_blocks_triggered = <<"holiday_block">>

\* the date string names a date of 2024
Parseable(s) ==
    /\ s # None
    /\ s # BadString
    /\ s.m \in 1..12
    /\ s.d \in 1..DaysInMonth(s.m)

DayNumber(s) == DaysBefore(s.m) + s.d - 1

ParseableMonday(s) == Parseable(s) /\ DayNumber(s) % 7 = 0

\* the failures the holiday gate must fail closed on
HolidayFailureCase(s, cal) ==
    \/ ~Parseable(s)
    \/ DayNumber(s) % 7 # 0
    \/ cal.mode \in {"load_raises", "schedule_raises", "schedule_none"}
    \/ cal.closed = 0..4

\* C5: the holiday gate fails closed: an unparseable date, a date that is not
\* a Monday, a calendar that cannot be loaded, a schedule query that errors and
\* a schedule that is None or empty all give is_trade_week false with a
\* non-empty reason, as a returned result.
C5_HolidayFailsClosed ==
    (pc = "holiday_done" /\ HolidayFailureCase(monday_date, calendar))
        => /\ IsDict(holiday_result)
           /\ holiday_result.is_trade_week = "False"
           /\ holiday_result.reason.text # ""

\* a Tuesday of an otherwise open week is refused
C5_Witness ==
    /\ pc = "holiday_done"
    /\ monday_date = [m |-> 1, d |-> 9]
    /\ calendar = [mode |-> "answers", closed |-> {}]
    /\ holiday_result.is_trade_week = "False"
    /\ holiday_result.reason.text = "Date is not a Monday."

\* C6: for a parseable Monday and a calendar that answers, is_trade_week is
\* (Monday is a trading day) and (Monday + 4 days is a trading day), the two
\* day flags report those facts, and closed days from Tuesday to Thursday do
\* not matter; in every result is_trade_week = monday_trading_day and
\* friday_trading_day.
C6_MondayAndFriday ==
    pc = "holiday_done"
        => /\ holiday_result.is_trade_week
                = PyBool(holiday_result.monday_trading_day = "True"
                         /\ holiday_result.friday_trading_day = "True")
           /\ (ParseableMonday(monday_date) /\ calendar.mode = "answers")
                 => /\ holiday_result.monday_trading_day = PyBool(0 \notin calendar.closed)
                    /\ holiday_result.friday_trading_day = PyBool(4 \notin calendar.closed)
                    /\ holiday_result.is_trade_week
                         = PyBool(0 \notin calendar.closed /\ 4 \notin calendar.closed)

\* a week closed from Tuesday to Thursday is a trade week
C6_Witness ==
    /\ pc = "holiday_done"
    /\ monday_date = [m |-> 1, d |-> 8]
    /\ calendar = [mode |-> "answers", closed |-> {1, 2, 3}]
    /\ holiday_result.is_trade_week = "True"

Max(a, b) == IF a > b THEN a ELSE b

Built == pc = "bwb_done" /\ bwb_structure.valid = "True"

\* the distance from the short strike to the near long, read off the legs
LegWidth ==
    IF structure_type = STRUCTURE_PUT_CREDIT_BWB
    THEN bwb_structure.legs[2].strike - bwb_structure.legs[1].strike
    ELSE bwb_structure.legs[1].strike - bwb_structure.legs[3].strike

\* C7: in every valid structure max_loss is max(0, width - net_premium), with
\* width the distance from the short strike to the near long (the upper long
\* of a PUT credit BWB, the lower long of a CALL debit BWB), so max_loss is
\* never negative.
C7_MaxLossFormula ==
    Built => /\ bwb_structure.max_loss.num = Max(0, LegWidth - bwb_structure.net_premium)
             /\ bwb_structure.max_loss.num >= 0

\* a valid structure whose credit exceeds the width: the loss is floored at 0
C7_Witness ==
    /\ Built
    /\ LegWidth - bwb_structure.net_premium < 0
    /\ bwb_structure.max_loss.num = 0

\* C8: an invalid result has no legs, no max_loss and a reason; a valid result
\* has exactly three legs, a SELL of 2 then two BUYs of 1, all of the kind the
\* structure type requires.
C8_ResultShape ==
    pc = "bwb_done" =>
        /\ bwb_structure.valid \in {"True", "False"}
        /\ bwb_structure.valid = "False" =>
              /\ bwb_structure.legs = << >>
              /\ bwb_structure.max_loss = None
              /\ bwb_structure.reason.text # ""
        /\ bwb_structure.valid = "True" =>
              /\ Len(bwb_structure.legs) = 3
              /\ bwb_structure.legs[1].action = "SELL"
              /\ bwb_structure.legs[1].quantity = 2
              /\ \A i \in {2, 3} : /\ bwb_structure.legs[i].action = "BUY"
                                   /\ bwb_structure.legs[i].quantity = 1
              /\ \A i \in 1..3 : bwb_structure.legs[i].type = OptionType(structure_type)

\* a structure built from a chain that also holds records of the other kind
C8_Witness ==
    /\ Built
    /\ Len(bwb_structure.legs) = 3
    /\ \E i \in DOMAIN option_chain.items :
          DictGet(option_chain.items[i], "type", "None") = OtherType(structure_type)

\* the chain records of the kind and strike of leg i
LegRecords(i) ==
    {o \in Range(option_chain.items) :
        /\ DictGet(o, "type", "None") = bwb_structure.legs[i].type
        /\ DictGet(o, "strike", None) = PyNum(bwb_structure.legs[i].strike)}

\* C9: the builder refuses to build on incomplete records: in a valid
\* structure every chain record standing behind a leg carries strike, bid and
\* ask, and the short leg carries a delta.
C9_RefusesMissingFields ==
    Built => /\ \A i \in 1..3 : \A o \in LegRecords(i) :
                    {"strike", "bid", "ask"} \subseteq DOMAIN o
             /\ bwb_structure.legs[1].delta # None

\* the stages in the order of the pipeline
StageOrder ==
    <<"is_trade_week", "compute_ema_state", "evaluate_entry", "build_bwb_structure">>

\* a chain from which the builder makes a valid structure of the requested type
Buildable ==
    build_bwb_structure(option_chain, structure_type).valid = "True"

\* C3: the pipeline calls the holiday gate, the EMA engine and the entry
\* evaluator in that order and the builder last, and only after a decision
\* TRADE ALLOWED: a returned result with another decision has bwb_structure
\* None, the builder never having been called.
C3_BuilderOnlyWhenAllowed ==
    /\ calls = SubSeq(StageOrder, 1, Len(calls))
    /\ "build_bwb_structure" \in Range(calls)
          => entry_decision.decision = DECISION_TRADE_ALLOWED
    /\ (pc = "pipe_returned" /\ entry_decision.decision # DECISION_TRADE_ALLOWED)
          => /\ bwb_structure = None
             /\ "build_bwb_structure" \notin Range(calls)

\* a blocked week returned although the chain would have built
C3_Witness ==
    /\ pc = "pipe_returned"
    /\ entry_decision.decision = DECISION_NO_TRADE
    /\ Buildable
    /\ bwb_structure = None
    /\ calls = SubSeq(StageOrder, 1, 3)

\* C4: run_weekly_pipeline never raises: whatever the date, the prices and
\* the chain, it returns a result whose entry_decision is populated, NO TRADE
\* with a reason on any failure.
C4_NeverRaises ==
    /\ pc # "pipe_raised"
    /\ pc = "pipe_returned" =>
          /\ IsDict(entry_decision)
          /\ entry_decision.decision \in {DECISION_TRADE_ALLOWED, DECISION_NO_TRADE}
          /\ entry_decision.decision = DECISION_NO_TRADE => entry_decision.reasons # << >>

\* a record that counts as a traded week
Traded(w) ==
    /\ IsDict(w)
    /\ DictGet(w, "decision", "None") = DECISION_TRADE_ALLOWED
    /\ DictGet(w, "outcome", "None") # OUTCOME_SKIPPED

AllZero ==
    [total_trades |-> 0, wins |-> 0, losses |-> 0, win_rate |-> 0,
     average_win |-> 0, average_loss |-> 0, expectancy |-> 0,
     cumulative_pnl |-> 0, max_drawdown |-> 0, return_on_risk |-> 0]

\* C11: when no input record has decision TRADE ALLOWED and an outcome other
\* than SKIPPED, in particular for the empty list and for a list of SKIPPED
\* weeks only, evaluate_backtest returns the all-zero metrics record.
C11_NoTradedWeeksAllZero ==
    (/\ pc = "backtest_done"
     /\ IsList(weekly_results) =>
            \A i \in DOMAIN weekly_results.items : ~Traded(weekly_results.items[i]))
        => metrics = AllZero

\* a list of SKIPPED weeks, one of which the entry rules had allowed
C11_Witness ==
    /\ pc = "backtest_done"
    /\ IsList(weekly_results)
    /\ Len(weekly_results.items) >= 2
    /\ \A i \in DOMAIN weekly_results.items :
          /\ IsDict(weekly_results.items[i])
          /\ DictGet(weekly_results.items[i], "outcome", "None") = OUTCOME_SKIPPED
    /\ \E i \in DOMAIN weekly_results.items :
          weekly_results.items[i].decision = DECISION_TRADE_ALLOWED
    /\ metrics = AllZero

\* the input is a list of dicts whose traded weeks carry numbers, so that the
\* metrics are computed from it
Evaluated ==
    /\ IsList(weekly_results)
    /\ \A i \in DOMAIN weekly_results.items :
          /\ IsDict(weekly_results.items[i])
          /\ Traded(weekly_results.items[i]) =>
                /\ IsNum(DictGet(weekly_results.items[i], "pnl", PyNum(0)))
                /\ \/ DictGet(weekly_results.items[i], "max_loss", None) = None
                   \/ IsNum(DictGet(weekly_results.items[i], "max_loss", None))

\* the traded weeks, in input order, and their pnl
TradedInput == SelectSeq(weekly_results.items, Traded)
TradedPnl == [i \in DOMAIN TradedInput |-> DictGet(TradedInput[i], "pnl", PyNum(0)).num]

\* S_k: the sum of the first k traded pnl values
RECURSIVE PrefixSum(_, _)
PrefixSum(xs, k) == IF k = 0 THEN 0 ELSE xs[k] + PrefixSum(xs, k - 1)

SetMax(S) == CHOOSE m \in S : \A x \in S : x <= m

PeakToTrough(xs) ==
    SetMax({PrefixSum(xs, p[1]) - PrefixSum(xs, p[2]) :
                p \in {q \in (0..Len(xs)) \X (0..Len(xs)) : q[1] <= q[2]}})

\* C12: max_drawdown is the largest S_i - S_j over 0 <= i <= j of the traded
\* pnl in input order (S_0 = 0, so the running peak starts at 0); it is never
\* negative, and it is 0 exactly when no S_j lies below an earlier S_i.
C12_MaxDrawdownPeakToTrough ==
    pc = "backtest_done" =>
        /\ metrics.max_drawdown >= 0
        /\ Evaluated =>
              /\ metrics.max_drawdown = 10000 * PeakToTrough(TradedPnl)
              /\ metrics.max_drawdown = 0 <=>
                    \A j \in 0..Len(TradedPnl) : \A i \in 0..j :
                        PrefixSum(TradedPnl, j) >= PrefixSum(TradedPnl, i)

\* a win of 3 followed by a loss of 5: the drawdown is measured from the peak
\* reached after the win
C12_Witness ==
    /\ pc = "backtest_done"
    /\ Evaluated
    /\ Len(TradedPnl) >= 3
    /\ TradedPnl[1] = 3
    /\ TradedPnl[2] = -5
    /\ metrics.max_drawdown = 50000

\* the max_loss values of the traded weeks that are known and strictly positive
PositiveMaxLoss ==
    LET ws == SelectSeq(TradedInput, LAMBDA w :
                  /\ DictGet(w, "max_loss", None) # None
                  /\ DictGet(w, "max_loss", None).num > 0)
    IN  [i \in DOMAIN ws |-> ws[i].max_loss.num]

\* C13: return_on_risk is expectancy divided by the mean of max_loss over the
\* traded weeks whose max_loss is known and strictly positive (weeks with a
\* max_loss of 0 or None are left out of the mean), and 0 if there is no such
\* week.
C13_ReturnOnRiskPositiveMean ==
    (pc = "backtest_done" /\ Evaluated /\ TradedInput # << >>) =>
        metrics.return_on_risk =
            IF PositiveMaxLoss = << >> THEN 0
            ELSE RoundRatio(
                    PrefixSum(TradedPnl, Len(TradedPnl)) * Len(PositiveMaxLoss),
                    Len(TradedPnl) * PrefixSum(PositiveMaxLoss, Len(PositiveMaxLoss)))

\* a traded record whose pnl or max_loss is present and is not a number
BadNumbers(w) ==
    /\ Traded(w)
    /\ \/ ~IsNum(DictGet(w, "pnl", PyNum(0)))
       \/ /\ DictGet(w, "max_loss", None) # None
          /\ ~IsNum(DictGet(w, "max_loss", None))

MalformedInput ==
    \/ ~IsList(weekly_results)
    \/ \E i \in DOMAIN weekly_results.items :
          \/ ~IsDict(weekly_results.items[i])
          \/ BadNumbers(weekly_results.items[i])

\* C14: evaluate_backtest always returns a metrics record; for an argument
\* that is not a list, a record that is not a dict, or a traded record whose
\* pnl or max_loss is not a number, it is the all-zero record, whatever the
\* other records hold.
C14_MalformedInputAllZero ==
    pc = "backtest_done" =>
        /\ DOMAIN metrics = DOMAIN AllZero
        /\ MalformedInput => metrics = AllZero

\* two sound traded weeks and one whose numbers cannot be summed
C14_Witness ==
    /\ pc = "backtest_done"
    /\ IsList(weekly_results)
    /\ \E i, j, k \in DOMAIN weekly_results.items :
          /\ i # j
          /\ Traded(weekly_results.items[i]) /\ ~BadNumbers(weekly_results.items[i])
          /\ Traded(weekly_results.items[j]) /\ ~BadNumbers(weekly_results.items[j])
          /\ BadNumbers(weekly_results.items[k])
    /\ metrics = AllZero

EmaDone == pc = "ema_done" /\ periods = DefaultPeriods /\ IsList(prices)

StrictlyIncreasing(xs) == \A i \in 1..(Len(xs) - 1) : xs[i] < xs[i + 1]
StrictlyDecreasing(xs) == \A i \in 1..(Len(xs) - 1) : xs[i] > xs[i + 1]

\* the last price minus the one before it
LastStep(xs) == xs[Len(xs)] - xs[Len(xs) - 1]

\* C15 (as stated): with periods 3 and 8, every strictly increasing series of
\* at least 10 prices gives valid, short_above_long true and slope positive;
\* every strictly decreasing one gives short_above_long false and slope
\* negative.
C15_MonotoneSeriesAsStated ==
    (EmaDone /\ Len(prices.items) >= 10) =>
        /\ StrictlyIncreasing(prices.items) =>
              /\ ema_state.valid = "True"
              /\ ema_state.short_above_long = "True"
              /\ ema_state.long_ema_slope = "positive"
        /\ StrictlyDecreasing(prices.items) =>
              /\ ema_state.short_above_long = "False"
              /\ ema_state.long_ema_slope = "negative"

\* C15 (amended): with periods 3 and 8, a strictly increasing series of at
\* least 10 prices gives valid, short_above_long true and a slope that is not
\* negative, and positive when the last price exceeds its predecessor by at
\* least 4.5 * SLOPE_EPSILON; a strictly decreasing one gives valid,
\* short_above_long false and a slope that is not positive, and negative when
\* the last price lies at least 4.5 * SLOPE_EPSILON below its predecessor.
C15_MonotoneSeries ==
    (EmaDone /\ Len(prices.items) >= 10) =>
        /\ StrictlyIncreasing(prices.items) =>
              /\ ema_state.valid = "True"
              /\ ema_state.short_above_long = "True"
              /\ ema_state.long_ema_slope # "negative"
              /\ 2 * LastStep(prices.items) >= 9 * SLOPE_EPSILON
                    => ema_state.long_ema_slope = "positive"
        /\ StrictlyDecreasing(prices.items) =>
              /\ ema_state.valid = "True"
              /\ ema_state.short_above_long = "False"
              /\ ema_state.long_ema_slope # "positive"
              /\ -2 * LastStep(prices.items) >= 9 * SLOPE_EPSILON
                    => ema_state.long_ema_slope = "negative"

\* a strictly increasing series whose long EMA rises by less than SLOPE_EPSILON
C15_Witness ==
    /\ EmaDone
    /\ Len(prices.items) >= 10
    /\ StrictlyIncreasing(prices.items)
    /\ ema_state.valid = "True"
    /\ ema_state.short_above_long = "True"
    /\ ema_state.long_ema_slope = "zero"

Unchanging(xs) == \A i \in DOMAIN xs : xs[i] = xs[1]

\* C16: with periods 3 and 8, a constant series of at least 11 prices gives
\* valid and slope zero: the last two long-EMA values are the same.
C16_ConstantSeriesFlat ==
    (EmaDone /\ Len(prices.items) >= 11 /\ prices.bad = {} /\ Unchanging(prices.items)) =>
        /\ ema_state.valid = "True"
        /\ ema_state.long_ema_slope = "zero"

C16_Witness ==
    /\ EmaDone
    /\ Len(prices.items) >= 11
    /\ prices.bad = {}
    /\ Unchanging(prices.items)
    /\ prices.items[1] = 500
    /\ ema_state.long_ema_slope = "zero"
    /\ ema_state.long_ema.num = 500 * ema_state.long_ema.den

\* C17: compute_ema_state returns valid false, no short_ema, no long_ema and a
\* reason whenever prices is not a list, short_period >= long_period, or there
\* are fewer than long_period + 2 prices.
C17_ValidationFailsClosed ==
    (/\ pc = "ema_done"
     /\ \/ ~IsList(prices)
        \/ periods.short_period >= periods.long_period
        \/ Len(prices.items) < periods.long_period + 2)
        => /\ ema_state.valid = "False"
           /\ ema_state.short_ema = None
           /\ ema_state.long_ema = None
           /\ ema_state.reason.text # ""

\* periods in the wrong order with enough prices for either
C17_Witness ==
    /\ pc = "ema_done"
    /\ IsList(prices)
    /\ Len(prices.items) >= 10
    /\ periods.short_period > periods.long_period
    /\ periods.long_period >= 1
    /\ ema_state.valid = "False"
    /\ ema_state.short_ema = None

\* run_paper_pipeline has returned after run_weekly_pipeline returned to it
PaperReturnedAfterCore == pc = "paper_returned" /\ calls # << >>

\* C18: once run_weekly_pipeline has returned, run_paper_pipeline returns, and
\* the entry_decision and bwb_structure of the pipeline_result it returns are
\* the ones the core produced, whatever the advisory layers did and whether or
\* not the journal row was written.
C18_CoreDecisionKept ==
    /\ pc # "paper_raised"
    /\ PaperReturnedAfterCore =>
          /\ run_result.pipeline_result.entry_decision = entry_decision
          /\ run_result.pipeline_result.bwb_structure = bwb_structure
          /\ run_result.pipeline_result.entry_decision.hard_blocks_triggered
                # <<"data_fetch_error">>

\* a TRADE ALLOWED run where an advisory layer raised and the journal row
\* could not be written
C18_Witness ==
    /\ PaperReturnedAfterCore
    /\ entry_decision.decision = DECISION_TRADE_ALLOWED
    /\ bwb_structure.valid = "True"
    /\ run_result.advisory.confidence_score = Computed
    /\ run_result.advisory.slippage_analysis = None
    /\ journal = << >>

EntryDone == pc = "entry_done"

SignalFailTexts ==
    {"SIGNAL FAIL: 3-period EMA is not above 8-period EMA.",
     "SIGNAL FAIL: 8-period EMA slope is negative."}

\* the EMA state would fail both signal conditions
FailsBothSignals(e) ==
    /\ IsDict(e)
    /\ DictGet(e, "short_above_long", "False") \in {"False", "None"}
    /\ DictGet(e, "long_ema_slope", "negative") = "negative"

\* C19: every result of evaluate_entry whose hard_blocks_triggered is not empty
\* has an empty signal_failures and no signal-failure reason among its reasons,
\* whatever the EMA state says about the two signal conditions.
C19_HardBlockSkipsTier2 ==
    (EntryDone /\ entry_decision.hard_blocks_triggered # << >>)
        => /\ entry_decision.signal_failures = << >>
           /\ \A i \in DOMAIN entry_decision.reasons :
                 entry_decision.reasons[i].text \notin SignalFailTexts

\* an invalid entry time with a valid EMA state that fails both signal conditions
C19_Witness ==
    /\ EntryDone
    /\ entry_decision.hard_blocks_triggered = <<"entry_time_invalid">>
    /\ DictGet(ema_state, "valid", "False") = "True"
    /\ FailsBothSignals(ema_state)
    /\ entry_decision.signal_failures = << >>

\* the tag and reason each Tier 1 check owes on its own
HolidayOwes(h) ==
    IF ~IsDict(h)
    THEN <<[tag |-> "holiday_data_invalid",
            reason |-> Msg("HARD BLOCK: Holiday result is missing or malformed.", "")]>>
    ELSE IF DictGet(h, "is_trade_week", "False") \in {"False", "None"}
    THEN <<[tag |-> "holiday_block",
            reason |-> Msg("HARD BLOCK: ", DictGet(h, "reason", "Holiday check failed."))]>>
    ELSE << >>

ContextOwes(c) ==
    IF ~IsDict(c)
    THEN <<[tag |-> "entry_context_invalid",
            reason |-> Msg("HARD BLOCK: Entry context is missing or malformed.", "")]>>
    ELSE IF DictGet(c, "entry_time_valid", "False") \in {"False", "None"}
    THEN <<[tag |-> "entry_time_invalid",
            reason |-> Msg("HARD BLOCK: Entry time is outside the valid window.", "")]>>
    ELSE << >>

EmaOwes(e) ==
    IF ~IsDict(e)
    THEN <<[tag |-> "ema_data_invalid",
            reason |-> Msg("HARD BLOCK: EMA state is missing or malformed.", "")]>>
    ELSE IF DictGet(e, "valid", "False") \in {"False", "None"}
    THEN <<[tag |-> "ema_invalid",
            reason |-> Msg("HARD BLOCK: ", DictGet(e, "reason", "EMA data is invalid."))]>>
    ELSE << >>

Owed == HolidayOwes(holiday_result) \o ContextOwes(entry_context) \o EmaOwes(ema_state)

\* C20: when no truth test of a flag raises, hard_blocks_triggered is the tag of
\* the holiday check if it fails, then that of the entry-context check if it
\* fails, then that of the EMA check if it fails, each decided without regard
\* to the other two; and when a block is triggered reasons holds exactly the
\* reasons of those tags, in the same order.
C20_Tier1EvaluatedInFull ==
    (/\ EntryDone
     /\ OrdinaryFlags(holiday_result)
     /\ OrdinaryFlags(entry_context)
     /\ OrdinaryFlags(ema_state))
        => /\ entry_decision.hard_blocks_triggered = [i \in DOMAIN Owed |-> Owed[i].tag]
           /\ Owed # << >> => entry_decision.reasons = [i \in DOMAIN Owed |-> Owed[i].reason]

\* a disallowed week with an invalid entry time and an invalid EMA state
C20_Witness ==
    /\ EntryDone
    /\ holiday_result = [is_trade_week |-> "False", reason |-> "Monday is a market holiday."]
    /\ entry_context = [entry_day |-> "Monday", entry_time_valid |-> "False"]
    /\ ema_state = [valid |-> "False", reason |-> "Insufficient data for EMA calculation."]
    /\ entry_decision.hard_blocks_triggered
          = <<"holiday_block", "entry_time_invalid", "ema_invalid">>
    /\ Len(entry_decision.reasons) = 3

\* the signal failures an EMA state owes: a short_above_long that is absent or
\* not true, then a long_ema_slope that is absent or "negative"
SignalsOwed(e) ==
    (IF "short_above_long" \in DOMAIN e /\ e.short_above_long \in {"True", "Truthy"}
     THEN << >> ELSE <<"short_ema_not_above_long">>)
    \o (IF "long_ema_slope" \in DOMAIN e /\ e.long_ema_slope # "negative"
        THEN << >> ELSE <<"long_ema_slope_negative">>)

\* C21: when no hard block is reported, signal_failures is
\* short_ema_not_above_long if short_above_long is not true, then
\* long_ema_slope_negative if long_ema_slope is "negative" (an absent field
\* counts as failing), and nothing else; the decision is TRADE ALLOWED exactly
\* when that list is empty, so a slope of "zero" is no failure.
C21_SignalFailuresExact ==
    (EntryDone /\ entry_decision.hard_blocks_triggered = << >>)
        => /\ entry_decision.signal_failures = SignalsOwed(ema_state)
           /\ Len(entry_decision.reasons) = IF SignalsOwed(ema_state) = << >> THEN 1
                                            ELSE Len(SignalsOwed(ema_state))
           /\ (entry_decision.decision = DECISION_TRADE_ALLOWED)
                 <=> (SignalsOwed(ema_state) = << >>)
           /\ (/\ DictGet(ema_state, "short_above_long", "False") = "True"
               /\ DictGet(ema_state, "long_ema_slope", "negative") = "zero")
                 => entry_decision.decision = DECISION_TRADE_ALLOWED

\* TEST 4 of the module: a valid EMA state that fails both signal conditions
C21_Witness ==
    /\ EntryDone
    /\ ema_state = [valid |-> "True", short_above_long |-> "False",
                    long_ema_slope |-> "negative", reason |-> "EMA computed."]
    /\ entry_decision.hard_blocks_triggered = << >>
    /\ entry_decision.signal_failures
          = <<"short_ema_not_above_long", "long_ema_slope_negative">>

\* the truth test of field k of d raises
FlagRaises(d, k) == IsDict(d) /\ k \in DOMAIN d /\ d[k] = "Raises"

\* a Tier 1 check raises
Tier1Raises ==
    \/ FlagRaises(holiday_result, "is_trade_week")
    \/ FlagRaises(entry_context, "entry_time_valid")
    \/ FlagRaises(ema_state, "valid")

\* Tier 2 is reached (no Tier 1 check failed) and one of its tests raises
Tier2Raises ==
    /\ ~Tier1Raises
    /\ Owed = << >>
    /\ \/ FlagRaises(ema_state, "short_above_long")
       \/ FlagRaises(ema_state, "long_ema_slope")

\* C22: evaluate_entry always returns a result; when an error is raised while
\* a tier is evaluated the result is NO TRADE with evaluation_error among
\* hard_blocks_triggered and the explanatory reason among reasons, and
\* evaluation_error is reported in no other case.
C22_InternalErrorIsHardBlock ==
    EntryDone =>
        /\ entry_decision.decision \in {DECISION_NO_TRADE, DECISION_TRADE_ALLOWED}
        /\ (Tier1Raises \/ Tier2Raises) =>
              /\ entry_decision.decision = DECISION_NO_TRADE
              /\ "evaluation_error" \in Range(entry_decision.hard_blocks_triggered)
              /\ ErrorReason \in Range(entry_decision.reasons)
        /\ "evaluation_error" \in Range(entry_decision.hard_blocks_triggered)
              => (Tier1Raises \/ Tier2Raises)

\* Tier 1 is clean and the truth test of short_above_long raises
C22_Witness ==
    /\ EntryDone
    /\ Tier2Raises
    /\ FlagRaises(ema_state, "short_above_long")
    /\ entry_decision.decision = DECISION_NO_TRADE
    /\ entry_decision.hard_blocks_triggered = <<"evaluation_error">>

BwbDone == pc = "bwb_done" /\ structure_type \in StructureTypes /\ IsList(option_chain)

\* the chain records of the required kind, and those among them carrying a delta
OfKind == {o \in Range(option_chain.items) :
              DictGet(o, "type", "None") = OptionType(structure_type)}
WithDelta == {o \in OfKind : DictGet(o, "delta", None) # None}

Target == IF structure_type = STRUCTURE_PUT_CREDIT_BWB
          THEN TARGET_DELTA_PUT_SHORT ELSE TARGET_DELTA_CALL_SHORT

\* | |delta| - target |
DeltaDistance(o) == Abs(Abs(o.delta.num) - Target)

\* the records closest to the target, and the lowest strike among them
Closest == {o \in WithDelta : \A q \in WithDelta : DeltaDistance(o) <= DeltaDistance(q)}
LowestClosest == {o \in Closest : \A q \in Closest : o.strike.num <= q.strike.num}

\* C23: in every valid structure the short leg is a record of the required kind
\* carrying a delta whose | |delta| - target | is minimal, and the one of lowest
\* strike among those equally close; when no record of the required kind
\* carries a delta the result is invalid.
C23_ShortStrikeSelection ==
    BwbDone =>
        /\ Built => \E o \in LowestClosest :
                       /\ bwb_structure.legs[1].strike = o.strike.num
                       /\ bwb_structure.legs[1].delta = PyNum(Round4(o.delta.num))
        /\ WithDelta = {} => bwb_structure.valid = "False"

\* a valid structure where two records at different strikes are equally close
C23_Witness ==
    /\ Built
    /\ \E o \in Closest : \E q \in Closest : o.strike.num < q.strike.num
    /\ \E o \in WithDelta : o \notin Closest

\* C24: in every valid structure the upper long strike (leg 2) is strictly
\* above the short strike (leg 1) and the lower long strike (leg 3) strictly
\* below it, also when the chain repeats a strike.
C24_LongsAroundShort ==
    Built => /\ bwb_structure.legs[2].strike > bwb_structure.legs[1].strike
             /\ bwb_structure.legs[3].strike < bwb_structure.legs[1].strike

\* the record carries a bid and an ask
Quoted(o) ==
    /\ DictGet(o, "bid", None) # None
    /\ DictGet(o, "ask", None) # None

\* (bid + ask) / 2
Mid(o) == (o.bid.num + o.ask.num) \div 2

\* leg i of the structure is the record o
LegIs(i, o) ==
    /\ bwb_structure.legs[i].strike = o.strike.num
    /\ bwb_structure.legs[i].price = Round4(Mid(o))

\* C25: in every valid structure built from a chain whose records of the kind
\* are all quoted, each leg's price is the midpoint (bid + ask) / 2 of a chain
\* record at that leg's strike, and net_premium is 2 x mid(short) - mid(long
\* upper) - mid(long lower) of those records, for both structure types; prices
\* and net_premium are given to 4 decimal places.
C25_MidpointPricing ==
    (Built /\ \A o \in OfKind : Quoted(o)) =>
        \E s \in OfKind, u \in OfKind, l \in OfKind :
            /\ LegIs(1, s)
            /\ LegIs(2, u)
            /\ LegIs(3, l)
            /\ bwb_structure.net_premium = Round4(2 * Mid(s) - Mid(u) - Mid(l))

\* a valid structure with three differently priced legs and a net debit
C25_Witness ==
    /\ Built
    /\ \A o \in OfKind : Quoted(o)
    /\ bwb_structure.legs[1].price # bwb_structure.legs[2].price
    /\ bwb_structure.legs[2].price # bwb_structure.legs[3].price
    /\ bwb_structure.net_premium < 0

SeriesDone == pc = "series_done"

\* two fractions are the same number
FracEq(x, y) == x.num * y.den = y.num * x.den

\* (price - prev) * 2 / (period + 1) + prev, over the denominator
\* (period + 1) * prev.den
Recurrence(price, prev, n) ==
    Frac(2 * (price * prev.den - prev.num) + (n + 1) * prev.num, (n + 1) * prev.den)

\* C26: for a list of numbers and a period >= 1, compute_ema_series returns
\* None when len(prices) < period + 2 and otherwise a list as long as prices
\* whose first period entries are the mean of the first period prices and
\* whose entry i, from position period on, is
\* (prices[i] - ema[i-1]) * 2 / (period + 1) + ema[i-1].
C26_EmaSeries ==
    (SeriesDone /\ IsList(prices) /\ prices.bad = {} /\ ema_period >= 1) =>
        IF Len(prices.items) < ema_period + 2
        THEN ema_series = None
        ELSE /\ ema_series # None
             /\ Len(ema_series.items) = Len(prices.items)
             /\ \A i \in 1..ema_period :
                   FracEq(ema_series.items[i],
                          Frac(SumTo(prices.items, ema_period), ema_period))
             /\ \A i \in (ema_period + 1)..Len(prices.items) :
                   FracEq(ema_series.items[i],
                          Recurrence(prices.items[i], ema_series.items[i - 1], ema_period))

\* a series with a seed over three unequal prices followed by three steps
C26_Witness ==
    /\ SeriesDone
    /\ ema_period = 3
    /\ prices = PyList(<<1, 3, 6, 1, 3, 6>>)
    /\ ema_series # None
    /\ Len(ema_series.items) = 6
    /\ ema_series.items[1] # ema_series.items[4]

\* the positions of the traded weeks, and of those with a given outcome
TradedAt == {i \in DOMAIN weekly_results.items : Traded(weekly_results.items[i])}
TradedWith(outcome) ==
    {i \in TradedAt : DictGet(weekly_results.items[i], "outcome", "None") = outcome}

\* C27: for a list of dicts whose traded weeks carry numbers, total_trades is
\* the number of records with decision TRADE ALLOWED and an outcome other than
\* SKIPPED, wins the number of those with outcome WIN and losses the number
\* with outcome LOSS; total_trades = wins + losses when every outcome is WIN,
\* LOSS or SKIPPED; and every metric is what the traded weeks alone give, so
\* the other records change nothing wherever they sit.
C27_CountsTradedWeeks ==
    (pc = "backtest_done" /\ Evaluated) =>
        /\ metrics.total_trades = Cardinality(TradedAt)
        /\ metrics.wins = Cardinality(TradedWith(OUTCOME_WIN))
        /\ metrics.losses = Cardinality(TradedWith(OUTCOME_LOSS))
        /\ (\A i \in DOMAIN weekly_results.items :
               DictGet(weekly_results.items[i], "outcome", "None")
                   \in {OUTCOME_WIN, OUTCOME_LOSS, OUTCOME_SKIPPED})
              => metrics.total_trades = metrics.wins + metrics.losses
        /\ metrics = evaluate_backtest(PyList(TradedInput))

\* a win and a loss with a record that is no traded week before, between and
\* after them
C27_Witness ==
    /\ pc = "backtest_done"
    /\ Evaluated
    /\ Len(weekly_results.items) = 4
    /\ TradedAt = {2, 4}
    /\ weekly_results.items[1].decision = DECISION_NO_TRADE
    /\ weekly_results.items[1].outcome = OUTCOME_WIN
    /\ metrics.wins = 1
    /\ metrics.losses = 1

\* C28: whenever the result of run_weekly_pipeline holds a bwb_structure, the
\* same result's holiday_result allows the week, its ema_state is valid with
\* short_above_long true and a slope other than "negative", the caller's
\* entry_time_valid was true, and its entry_decision is TRADE ALLOWED with no
\* hard block and no signal failure.
C28_EndToEndGate ==
    bwb_structure # None =>
        /\ holiday_result.is_trade_week = "True"
        /\ ema_state.valid = "True"
        /\ ema_state.short_above_long = "True"
        /\ ema_state.long_ema_slope \in {"positive", "zero"}
        /\ entry_time_valid = "True"
        /\ entry_decision.decision = DECISION_TRADE_ALLOWED
        /\ entry_decision.hard_blocks_triggered = << >>
        /\ entry_decision.signal_failures = << >>

\* a returned run on rising prices that built a valid structure
C28_Witness ==
    /\ pc = "pipe_returned"
    /\ prices = Rising
    /\ bwb_structure # None
    /\ bwb_structure.valid = "True"
    /\ calls = StageOrder

\* no two records of the required kind carry the same strike
DistinctStrikes ==
    \A i, j \in DOMAIN option_chain.items :
        (/\ i # j
         /\ option_chain.items[i] \in OfKind
         /\ option_chain.items[j] \in OfKind
         /\ "strike" \in DOMAIN option_chain.items[i]
         /\ "strike" \in DOMAIN option_chain.items[j])
            => option_chain.items[i].strike # option_chain.items[j].strike

\* the chain with its records in the order p
Reordered(p) == PyList([i \in DOMAIN option_chain.items |-> option_chain.items[p[i]]])

\* C29: for a chain in which no two records of the required kind share a
\* strike, build_bwb_structure returns the same result for every permutation of
\* the chain's records.
C29_OrderIndependence ==
    (BwbDone /\ DistinctStrikes) =>
        \A p \in Permutations(DOMAIN option_chain.items) :
            build_bwb_structure(Reordered(p), structure_type) = bwb_structure

\* a valid structure built from four records, which can be given in 24 orders
C29_Witness ==
    /\ Built
    /\ DistinctStrikes
    /\ Len(option_chain.items) = 4
    /\ \E p \in Permutations(DOMAIN option_chain.items) :
          /\ Reordered(p).items[1].strike.num > Reordered(p).items[2].strike.num
          /\ build_bwb_structure(Reordered(p), structure_type).valid = "True"

\* how often run_paper_pipeline has called f
TimesCalled(f) == Cardinality({i \in DOMAIN paper_calls : paper_calls[i] = f})

PaperReturned == pc = "paper_returned"

EnvRefused == run_result # None /\ ~run_result.env_validation.ok

\* C30: when validate_live_environment does not return ok, nothing is fetched
\* and run_weekly_pipeline and its stages are never called, and the returned
\* pipeline_result is NO TRADE with the hard block data_fetch_error; on every
\* path log_weekly_run is never called twice, and when run_paper_pipeline
\* returns it has been called exactly once, as the last call, on the
\* pipeline_result that is returned.
C30_KillSwitchOrdering ==
    /\ TimesCalled("log_weekly_run") <= 1
    /\ EnvRefused =>
          /\ TimesCalled("_fetch_spx_daily_closes") = 0
          /\ TimesCalled("_fetch_spx_option_chain") = 0
          /\ TimesCalled("run_weekly_pipeline") = 0
          /\ calls = << >>
          /\ PaperReturned
          /\ run_result.pipeline_result.entry_decision.decision = DECISION_NO_TRADE
          /\ run_result.pipeline_result.entry_decision.hard_blocks_triggered
                = <<"data_fetch_error">>
    /\ PaperReturned =>
          /\ TimesCalled("log_weekly_run") = 1
          /\ paper_calls[Len(paper_calls)] = "log_weekly_run"
          /\ paper_calls[1] = "validate_live_environment"
          /\ journal \in {<< >>, <<JournalRow(run_result)>>}
          /\ run_result.pipeline_result # None

\* the environment check refused, and the refusal was journalled
C30_Witness ==
    /\ PaperReturned
    /\ EnvRefused
    /\ paper_calls = <<"validate_live_environment", "log_weekly_run">>
    /\ Len(journal) = 1
    /\ journal[1].decision = DECISION_NO_TRADE

=============================================================================
